---- MODULE Spec2Model ----
(***************************************************************************)
(* vscode-timewarrior: the day editor's saveDay (Day Reconciler) and the   *)
(* month summary (Aggregation Engine) of CommandsProvider.                 *)
(*                                                                         *)
(* Time is counted in whole minutes of local wall-clock time since local   *)
(* midnight of 1 January of Epoch.year (the unit of the source is the      *)
(* millisecond; every timestamp the modelled code builds has seconds and   *)
(* milliseconds 0).  Every local day has 24 hours (no DST change).         *)
(* Text is a sequence of one-character strings.                            *)
(***************************************************************************)
EXTENDS Integers, Sequences, FiniteSets, TLC

----------------------------------------------------------------------------
(* Bounds of the model *)

\* number of saveDay calls in one behaviour
MaxSaves == 1
\* number of rows in one save message
MaxRows == 2
\* number of intervals in the initial data file
MaxStore == 2
\* number of day editor panels open at once
MaxEditors == 1
\* number of intervals one month summary is made of
MaxAggIntervals == 2
MaxWebRows == 2
MaxFiles == 3
MaxCalls == 2
MaxPanels == 2
MaxRenders == 2

----------------------------------------------------------------------------
(* Text *)

Digits == <<"0", "1", "2", "3", "4", "5", "6", "7", "8", "9">>

IsDigit(c) == \E i \in 1..Len(Digits) : Digits[i] = c

DigitValue(c) == (CHOOSE i \in 1..Len(Digits) : Digits[i] = c) - 1

IsSpace(c) == c = " "

\* String.prototype.trim
RECURSIVE TrimLeft(_)
TrimLeft(s) ==
  IF s # <<>> /\ IsSpace(Head(s)) THEN TrimLeft(Tail(s)) ELSE s

RECURSIVE TrimRight(_)
TrimRight(s) ==
  IF s # <<>> /\ IsSpace(s[Len(s)]) THEN TrimRight(SubSeq(s, 1, Len(s) - 1)) ELSE s

Trim(s) == TrimRight(TrimLeft(s))

\* String.prototype.split(sep) for a one-character separator: always at
\* least one piece
RECURSIVE SplitAcc(_, _, _)
SplitAcc(s, sep, cur) ==
  IF s = <<>> THEN <<cur>>
  ELSE IF Head(s) = sep THEN <<cur>> \o SplitAcc(Tail(s), sep, <<>>)
  ELSE SplitAcc(Tail(s), sep, Append(cur, Head(s)))

Split(s, sep) == SplitAcc(s, sep, <<>>)

Includes(s, c) == \E i \in 1..Len(s) : s[i] = c

\* Array.prototype.join(sep), sep a text
RECURSIVE Join(_, _)
Join(parts, sep) ==
  IF parts = <<>> THEN <<>>
  ELSE IF Len(parts) = 1 THEN parts[1]
  ELSE parts[1] \o sep \o Join(Tail(parts), sep)

\* Array.prototype.map / filter on sequences
RECURSIVE SeqFilterNonEmpty(_)
SeqFilterNonEmpty(parts) ==
  IF parts = <<>> THEN <<>>
  ELSE IF Head(parts) = <<>> THEN SeqFilterNonEmpty(Tail(parts))
  ELSE <<Head(parts)>> \o SeqFilterNonEmpty(Tail(parts))

----------------------------------------------------------------------------
(* Numbers: a JavaScript value that is a number, NaN or undefined *)

Num(n) == [k |-> "num", v |-> n]
NaN == [k |-> "nan", v |-> 0]
Undefined == [k |-> "undefined", v |-> 0]

RECURSIVE DecimalValue(_, _)
DecimalValue(s, acc) ==
  IF s = <<>> THEN acc ELSE DecimalValue(Tail(s), acc * 10 + DigitValue(Head(s)))

AllDigits(s) == s # <<>> /\ \A i \in 1..Len(s) : IsDigit(s[i])

\* Number(text) on the alphabet of the model (digits, '-', ':', ',', ' ',
\* letters): white space is trimmed, the empty text is 0, an optionally
\* negated run of digits is its value, anything else is NaN
ToNumber(s) ==
  LET t == Trim(s) IN
  IF t = <<>> THEN Num(0)
  ELSE IF AllDigits(t) THEN Num(DecimalValue(t, 0))
  ELSE IF Head(t) = "-" /\ AllDigits(Tail(t)) THEN Num(0 - DecimalValue(Tail(t), 0))
  ELSE NaN

\* Number.isNaN: true of the number NaN only, false of undefined
NumberIsNaN(x) == x.k = "nan"

----------------------------------------------------------------------------
(* Calendar: the local components of a timestamp, and new Date(y, m, d, ...) *)

MinutesPerHour == 60
HoursPerDay == 24
MinutesPerDay == HoursPerDay * MinutesPerHour

Epoch == [year |-> 2024, month |-> 0]

IsLeapYear(y) == (y % 4 = 0 /\ y % 100 # 0) \/ y % 400 = 0

DaysInMonthOf(y, m) ==
  IF m = 1 THEN (IF IsLeapYear(y) THEN 29 ELSE 28)
  ELSE IF m \in {3, 5, 8, 10} THEN 30
  ELSE 31

\* days from the epoch to the first day of month m (0..11) of year y
RECURSIVE MonthStartDay(_, _)
MonthStartDay(y, m) ==
  IF y = Epoch.year /\ m = Epoch.month THEN 0
  ELSE LET py == IF m = 0 THEN y - 1 ELSE y
           pm == IF m = 0 THEN 11 ELSE m - 1
       IN MonthStartDay(py, pm) + DaysInMonthOf(py, pm)

\* new Date(year, month, date, hours, minutes, 0, 0) of numbers: components
\* out of range carry over into the next larger one
MakeTime(y, m, d, h, mi) ==
  LET ny == y + (m \div 12)
      nm == m % 12
  IN (MonthStartDay(ny, nm) + (d - 1)) * MinutesPerDay + h * MinutesPerHour + mi

RECURSIVE FindMonth(_, _, _)
FindMonth(y, m, day) ==
  IF day < DaysInMonthOf(y, m) THEN [year |-> y, month |-> m, date |-> day + 1]
  ELSE FindMonth(IF m = 11 THEN y + 1 ELSE y, IF m = 11 THEN 0 ELSE m + 1,
                 day - DaysInMonthOf(y, m))

LocalDate(t) == FindMonth(Epoch.year, Epoch.month, t \div MinutesPerDay)

GetFullYear(t) == LocalDate(t).year
GetMonth(t) == LocalDate(t).month
GetDate(t) == LocalDate(t).date
GetHours(t) == (t % MinutesPerDay) \div MinutesPerHour
GetMinutes(t) == t % MinutesPerHour

\* a Date object: a time value, or the invalid date (time value NaN)
ValidDate(t) == [valid |-> TRUE, t |-> t]
InvalidDate == [valid |-> FALSE, t |-> 0]

\* new Date(y, m, d, hours, minutes, 0, 0) with hours and minutes JavaScript
\* values: undefined converts to NaN, and a NaN argument gives the invalid date
NewDate(y, m, d, hours, minutes) ==
  IF hours.k = "num" /\ minutes.k = "num"
  THEN ValidDate(MakeTime(y, m, d, hours.v, minutes.v))
  ELSE InvalidDate

DateIsValid(date) == date.valid

\* date1 <= date2 on Date objects: both convert to their time value, and a
\* comparison with NaN is false
DateLessOrEqual(date1, date2) == date1.valid /\ date2.valid /\ date1.t <= date2.t

----------------------------------------------------------------------------
(* The stored line format and the data file (src/dataAccess, described  *)
(* in sections 4.1 and 6 of the specification)                             *)
(*                                                                         *)
(* A line "inc <start> - <end> # <tags>" is the record of its three        *)
(* segments: the start datetime text, the end datetime text (absent for an *)
(* open interval) and the text after '#'.  A datetime text is the sequence *)
(* of the numbers it prints: year, month 1..12, day, hour, minute, second. *)
(***************************************************************************)

DateText(t) ==
  [ok |-> TRUE, f |-> <<GetFullYear(t), GetMonth(t) + 1, GetDate(t), GetHours(t), GetMinutes(t), 0>>]

\* the text of the invalid date: no timestamp can be read from it
BadDateText == [ok |-> FALSE, f |-> <<>>]

\* the absent end of the line of an open interval
NoDateText == [ok |-> TRUE, f |-> <<>>]

formatDate(date) == IF date.valid THEN DateText(date.t) ELSE BadDateText

parseDate(text) ==
  IF text.ok /\ Len(text.f) = 6
  THEN ValidDate(MakeTime(text.f[1], text.f[2] - 1, text.f[3], text.f[4], text.f[5]))
  ELSE InvalidDate

Line(startText, endText, tagsText) == [start |-> startText, end |-> endText, tags |-> tagsText]

\* the words of the tag segment: separated by blanks, a word in double
\* quotes keeps its blanks and loses the quotes
RECURSIVE ParseTagsAcc(_, _, _, _)
ParseTagsAcc(s, cur, inQuote, has) ==
  IF s = <<>> THEN (IF has THEN <<cur>> ELSE <<>>)
  ELSE LET c == Head(s) IN
    IF c = "\"" THEN
      IF inQuote THEN <<cur>> \o ParseTagsAcc(Tail(s), <<>>, FALSE, FALSE)
      ELSE ParseTagsAcc(Tail(s), cur, TRUE, TRUE)
    ELSE IF IsSpace(c) /\ ~inQuote THEN
      (IF has THEN <<cur>> ELSE <<>>) \o ParseTagsAcc(Tail(s), <<>>, FALSE, FALSE)
    ELSE ParseTagsAcc(Tail(s), Append(cur, c), inQuote, TRUE)

parseTags(text) == ParseTagsAcc(text, <<>>, FALSE, FALSE)

\* no tag is put in quotes
QuoteNever(tag) == tag

\* obj.includes(' ') ? `"${obj}"` : obj
Quote(tag) == IF Includes(tag, " ") THEN <<"\"">> \o tag \o <<"\"">> ELSE tag

RECURSIVE QuoteAll(_)
QuoteAll(tags) == IF tags = <<>> THEN <<>> ELSE <<Quote(Head(tags))>> \o QuoteAll(Tail(tags))

\* an Interval: start, end (meaningful unless open) and the tag list
Interval(start, end, open, tags) == [start |-> start, end |-> end, open |-> open, tags |-> tags]

\* new Interval(line): FormatError (ok = FALSE) when the start or a present
\* end is no valid timestamp
NewInterval(line) ==
  LET start == parseDate(line.start)
      open == line.end = NoDateText
      end == parseDate(line.end)
  IN IF ~start.valid \/ (~open /\ ~end.valid)
     THEN [ok |-> FALSE, interval |-> Interval(0, 0, FALSE, <<>>)]
     ELSE [ok |-> TRUE,
           interval |-> Interval(start.t, IF open THEN 0 ELSE end.t, open, parseTags(line.tags))]

\* Interval.fileFormat: the line of the interval
fileFormat(interval) ==
  Line(DateText(interval.start),
       IF interval.open THEN NoDateText ELSE DateText(interval.end),
       Join(QuoteAll(interval.tags), <<" ">>))

\* The file content is a sequence of items: a line, or the newline
\* character
EmptyLine == Line(NoDateText, NoDateText, <<>>)
LineItem(line) == [nl |-> FALSE, line |-> line]
NewlineItem == [nl |-> TRUE, line |-> EmptyLine]

\* lines.join('\n')
RECURSIVE JoinLines(_)
JoinLines(lines) ==
  IF lines = <<>> THEN <<>>
  ELSE IF Len(lines) = 1 THEN <<LineItem(lines[1])>>
  ELSE <<LineItem(lines[1]), NewlineItem>> \o JoinLines(Tail(lines))

\* the lines of a content: the runs of items between newlines, empty runs
\* skipped
RECURSIVE ReadLines(_)
ReadLines(text) ==
  IF text = <<>> THEN <<>>
  ELSE IF Head(text).nl THEN ReadLines(Tail(text))
  ELSE <<Head(text).line>> \o ReadLines(Tail(text))

\* the intervals of a content, in file order
RECURSIVE ParseIntervals(_)
ParseIntervals(lines) ==
  IF lines = <<>> THEN <<>>
  ELSE <<NewInterval(Head(lines)).interval>> \o ParseIntervals(Tail(lines))

ReadIntervals(text) == ParseIntervals(ReadLines(text))

\* content ? `${content}\n` : '' of the joined lines
StoreText(lines) ==
  LET content == JoinLines(lines) IN
  IF content # <<>> THEN Append(content, NewlineItem) ELSE <<>>

----------------------------------------------------------------------------
(* saveDay: the synchronous part (rows to replacement intervals) *)

Row(start, end, tags) == [start |-> start, end |-> end, tags |-> tags]


\* the rows trimmed, none of them dropped
RECURSIVE CleanRowsKeepingAll(_)
CleanRowsKeepingAll(rows) ==
  IF rows = <<>> THEN <<>>
  ELSE <<Row(Trim(Head(rows).start), Trim(Head(rows).end), Trim(Head(rows).tags))>>
       \o CleanRowsKeepingAll(Tail(rows))

\* rows.map(trim the three texts).filter(row => row.start && row.end)
RECURSIVE CleanRows(_)
CleanRows(rows) ==
  IF rows = <<>> THEN <<>>
  ELSE LET row == Row(Trim(Head(rows).start), Trim(Head(rows).end), Trim(Head(rows).tags))
       IN (IF row.start # <<>> /\ row.end # <<>> THEN <<row>> ELSE <<>>) \o CleanRows(Tail(rows))

RECURSIVE MapToNumber(_)
MapToNumber(parts) ==
  IF parts = <<>> THEN <<>> ELSE <<ToNumber(Head(parts))>> \o MapToNumber(Tail(parts))

\* const [hour, minute] = text.split(':').map(Number): a missing element
\* is undefined, further elements are ignored
HourMinute(text) ==
  LET parts == MapToNumber(Split(text, ":")) IN
  [hour |-> parts[1], minute |-> IF Len(parts) >= 2 THEN parts[2] ELSE Undefined]

\* Number.isNaN(startHour) || Number.isNaN(startMinute) || ...
InvalidTimeValues(start, end) ==
  \/ NumberIsNaN(start.hour)
  \/ NumberIsNaN(start.minute)
  \/ NumberIsNaN(end.hour)
  \/ NumberIsNaN(end.minute)

\* mutant: only an end before the start is refused
EndBeforeStart(start, end) == start.valid /\ end.valid /\ end.t < start.t

\* if (end <= start) throw
EndNotAfterStart(start, end) == DateLessOrEqual(end, start)

\* row.tags.split(',').map(trim).filter(Boolean), or [] for an empty text
RECURSIVE TrimAll(_)
TrimAll(parts) == IF parts = <<>> THEN <<>> ELSE <<Trim(Head(parts))>> \o TrimAll(Tail(parts))

\* the pieces trimmed, the empty ones kept
RowTagsKeepingEmpty(tagsText) ==
  IF tagsText # <<>> THEN TrimAll(Split(tagsText, ",")) ELSE <<>>

RowTags(tagsText) ==
  IF tagsText # <<>> THEN SeqFilterNonEmpty(TrimAll(Split(tagsText, ","))) ELSE <<>>

\* tags.map(quote those with a blank).join(' ')
TagList(tags) == Join(QuoteAll(tags), <<" ">>)

\* the callback of cleanedRows.map for one cleaned row: the error it throws
\* ("none" when it returns) and the interval it returns
RowInterval(row, day) ==
  LET targetYear == GetFullYear(day)
      targetMonth == GetMonth(day)
      targetDate == GetDate(day)
      s == HourMinute(row.start)
      e == HourMinute(row.end)
      start == NewDate(targetYear, targetMonth, targetDate, s.hour, s.minute)
      end == NewDate(targetYear, targetMonth, targetDate, e.hour, e.minute)
      made == NewInterval(Line(formatDate(start), formatDate(end), TagList(RowTags(row.tags))))
  IN IF InvalidTimeValues(s, e) THEN [error |-> "InvalidTimeValues", interval |-> made.interval]
     ELSE IF EndNotAfterStart(start, end) THEN [error |-> "EndNotAfterStart", interval |-> made.interval]
     ELSE IF ~made.ok THEN [error |-> "FormatError", interval |-> made.interval]
     ELSE [error |-> "none", interval |-> made.interval]

\* cleanedRows.map(callback): the first row that throws ends the call
RECURSIVE MapRows(_, _)
MapRows(rows, day) ==
  IF rows = <<>> THEN [error |-> "none", intervals |-> <<>>]
  ELSE LET first == RowInterval(Head(rows), day) IN
       IF first.error # "none" THEN [error |-> first.error, intervals |-> <<>>]
       ELSE LET rest == MapRows(Tail(rows), day) IN
            IF rest.error # "none" THEN rest
            ELSE [error |-> "none", intervals |-> <<first.interval>> \o rest.intervals]

\* mutant: a row that fails validation is left out and the save goes on
RECURSIVE MapRowsSkipping(_, _)
MapRowsSkipping(rows, day) ==
  IF rows = <<>> THEN [error |-> "none", intervals |-> <<>>]
  ELSE LET first == RowInterval(Head(rows), day)
           rest == MapRowsSkipping(Tail(rows), day)
       IN IF first.error # "none" THEN rest
          ELSE [error |-> "none", intervals |-> <<first.interval>> \o rest.intervals]

\* mutant: a save without a surviving row is refused
ReplacementIntervalsOfSomeRows(rows, day) ==
  IF rows = <<>> THEN [error |-> "NoRows", intervals |-> <<>>] ELSE MapRows(rows, day)

\* const replacementIntervals = cleanedRows.map(...)
ReplacementIntervals(rows, day) == MapRows(rows, day)

isSameDay(date1, date2) ==
  /\ GetFullYear(date1) = GetFullYear(date2)
  /\ GetMonth(date1) = GetMonth(date2)
  /\ GetDate(date1) = GetDate(date2)

\* intervals.filter(interval => !isSameDay(interval.start, day.start))
RECURSIVE Kept(_, _)
Kept(intervals, day) ==
  IF intervals = <<>> THEN <<>>
  ELSE (IF ~isSameDay(Head(intervals).start, day) THEN <<Head(intervals)>> ELSE <<>>)
       \o Kept(Tail(intervals), day)

\* Array.prototype.sort with (a, b) => a.start - b.start: stable
RECURSIVE InsertByStart(_, _)
InsertByStart(sorted, x) ==
  IF sorted = <<>> THEN <<x>>
  ELSE IF x.start < Head(sorted).start THEN <<x>> \o sorted
  ELSE <<Head(sorted)>> \o InsertByStart(Tail(sorted), x)

RECURSIVE SortByStart(_)
SortByStart(intervals) ==
  IF intervals = <<>> THEN <<>>
  ELSE InsertByStart(SortByStart(SubSeq(intervals, 1, Len(intervals) - 1)),
                     intervals[Len(intervals)])

\* mutant: the merged list is not sorted
MergedUnsorted(kept, replacementIntervals) == kept \o replacementIntervals

\* [...kept, ...replacementIntervals].sort(by start)
Merged(kept, replacementIntervals) == SortByStart(kept \o replacementIntervals)

RECURSIVE FileFormatAll(_)
FileFormatAll(intervals) ==
  IF intervals = <<>> THEN <<>> ELSE <<fileFormat(Head(intervals))>> \o FileFormatAll(Tail(intervals))

\* the content saveDay writes for the merged intervals
WrittenContent(merged) == StoreText(FileFormatAll(merged))

----------------------------------------------------------------------------
(* createMonthSummary: the aggregation of the intervals of a month *)

Max(a, b) == IF a >= b THEN a ELSE b
Min(a, b) == IF a <= b THEN a ELSE b

NoTag == <<"n", "o", " ", "t", "a", "g">>

\* a Record<string, number> made by {} is the sequence of its own entries in
\* insertion order; numeric is FALSE for a value that is a string, and then
\* duration is not meaningful
Entry(tag, duration) == [tag |-> tag, duration |-> duration, numeric |-> TRUE]
TextEntry(tag) == [tag |-> tag, duration |-> 0, numeric |-> FALSE]

\* the keys every object made by {} inherits from Object.prototype with a
\* function as value
InheritedFunctions ==
  { <<"c", "o", "n", "s", "t", "r", "u", "c", "t", "o", "r">>,
    <<"t", "o", "S", "t", "r", "i", "n", "g">>,
    <<"t", "o", "L", "o", "c", "a", "l", "e", "S", "t", "r", "i", "n", "g">>,
    <<"v", "a", "l", "u", "e", "O", "f">>,
    <<"h", "a", "s", "O", "w", "n", "P", "r", "o", "p", "e", "r", "t", "y">>,
    <<"i", "s", "P", "r", "o", "t", "o", "t", "y", "p", "e", "O", "f">>,
    <<"p", "r", "o", "p", "e", "r", "t", "y", "I", "s", "E", "n", "u", "m", "e", "r", "a", "b", "l", "e">>,
    <<"_", "_", "d", "e", "f", "i", "n", "e", "G", "e", "t", "t", "e", "r", "_", "_">>,
    <<"_", "_", "d", "e", "f", "i", "n", "e", "S", "e", "t", "t", "e", "r", "_", "_">>,
    <<"_", "_", "l", "o", "o", "k", "u", "p", "G", "e", "t", "t", "e", "r", "_", "_">>,
    <<"_", "_", "l", "o", "o", "k", "u", "p", "S", "e", "t", "t", "e", "r", "_", "_">> }

\* the inherited accessor __proto__: reads Object.prototype, and assigning
\* a value that is no object does nothing
ProtoKey == <<"_", "_", "p", "r", "o", "t", "o", "_", "_">>

HasKey(bucket, key) == \E i \in 1..Len(bucket) : bucket[i].tag = key

BucketValue(bucket, key) ==
  IF HasKey(bucket, key)
  THEN bucket[CHOOSE i \in 1..Len(bucket) : bucket[i].tag = key].duration
  ELSE 0

\* if (!bucket[key]) bucket[key] = 0; bucket[key] += duration;
\* bucket[key] of a key that is not an own property is the inherited value,
\* which is truthy, and += then makes a string of it and the duration
addDurationToBucket(bucket, key, duration) ==
  IF HasKey(bucket, key)
  THEN [i \in 1..Len(bucket) |->
          IF bucket[i].tag = key
          THEN (IF bucket[i].numeric THEN Entry(key, bucket[i].duration + duration)
                ELSE TextEntry(key))
          ELSE bucket[i]]
  ELSE IF key = ProtoKey THEN bucket
  ELSE IF key \in InheritedFunctions THEN Append(bucket, TextEntry(key))
  ELSE Append(bucket, Entry(key, 0 + duration))

\* mutant: a day gets the time up to its end, also beyond the end of the range
DayStepWholeDay(cursor, rangeEnd, dailyDurations, monthStart) ==
  LET year == GetFullYear(monthStart)
      month == GetMonth(monthStart)
      startOfDay == MakeTime(GetFullYear(cursor), GetMonth(cursor), GetDate(cursor), 0, 0)
      endOfDay == MakeTime(GetFullYear(startOfDay), GetMonth(startOfDay), GetDate(startOfDay) + 1,
                           GetHours(startOfDay), GetMinutes(startOfDay))
      segmentEnd == Min(endOfDay, rangeEnd)
      dayIndex == GetDate(cursor) - 1
  IN [cursor |-> segmentEnd,
      dailyDurations |->
        IF /\ GetFullYear(cursor) = year
           /\ GetMonth(cursor) = month
           /\ dayIndex >= 0
           /\ dayIndex < Len(dailyDurations)
        THEN [dailyDurations EXCEPT ![dayIndex + 1] = @ + (endOfDay - cursor)]
        ELSE dailyDurations]

\* mutant: the month of the day is not looked at
DayStepOfAnyMonth(cursor, rangeEnd, dailyDurations, monthStart) ==
  LET startOfDay == MakeTime(GetFullYear(cursor), GetMonth(cursor), GetDate(cursor), 0, 0)
      endOfDay == MakeTime(GetFullYear(startOfDay), GetMonth(startOfDay), GetDate(startOfDay) + 1,
                           GetHours(startOfDay), GetMinutes(startOfDay))
      segmentEnd == Min(endOfDay, rangeEnd)
      dayIndex == GetDate(cursor) - 1
  IN [cursor |-> segmentEnd,
      dailyDurations |->
        IF /\ dayIndex >= 0
           /\ dayIndex < Len(dailyDurations)
        THEN [dailyDurations EXCEPT ![dayIndex + 1] = @ + (segmentEnd - cursor)]
        ELSE dailyDurations]

\* one iteration of the loop of addDurationByDay: the daily buckets and the
\* cursor after it
DayStep(cursor, rangeEnd, dailyDurations, monthStart) ==
  LET year == GetFullYear(monthStart)
      month == GetMonth(monthStart)
      startOfDay == MakeTime(GetFullYear(cursor), GetMonth(cursor), GetDate(cursor), 0, 0)
      endOfDay == MakeTime(GetFullYear(startOfDay), GetMonth(startOfDay), GetDate(startOfDay) + 1,
                           GetHours(startOfDay), GetMinutes(startOfDay))
      segmentEnd == Min(endOfDay, rangeEnd)
      dayIndex == GetDate(cursor) - 1
  IN [cursor |-> segmentEnd,
      dailyDurations |->
        IF /\ GetFullYear(cursor) = year
           /\ GetMonth(cursor) = month
           /\ dayIndex >= 0
           /\ dayIndex < Len(dailyDurations)
        THEN [dailyDurations EXCEPT ![dayIndex + 1] = @ + (segmentEnd - cursor)]
        ELSE dailyDurations]

\* while (cursor < rangeEnd) { ... }
RECURSIVE DayLoop(_, _, _, _)
DayLoop(cursor, rangeEnd, dailyDurations, monthStart) ==
  IF cursor < rangeEnd
  THEN LET step == DayStep(cursor, rangeEnd, dailyDurations, monthStart)
       IN DayLoop(step.cursor, rangeEnd, step.dailyDurations, monthStart)
  ELSE dailyDurations

addDurationByDay(rangeStart, rangeEnd, dailyDurations, monthStart) ==
  DayLoop(rangeStart, rangeEnd, dailyDurations, monthStart)

\* for (const tag of interval.tags) addDurationToBucket(individual, tag, duration)
RECURSIVE AddEachTag(_, _, _)
AddEachTag(bucket, tags, duration) ==
  IF tags = <<>> THEN bucket
  ELSE AddEachTag(addDurationToBucket(bucket, Head(tags), duration), Tail(tags), duration)

\* interval.end || new Date()
\* the end field taken also of an interval that has none
ResolvedEndStored(interval, now) == interval.end

\* interval.end || new Date()
ResolvedEnd(interval, now) == IF interval.open THEN now ELSE interval.end

\* mutant: the start is not clipped to the month
EffectiveStartUnclipped(interval, monthStart) == interval.start

EffectiveStart(interval, monthStart) == Max(interval.start, monthStart)
EffectiveEnd(interval, monthEnd, now) == Min(ResolvedEnd(interval, now), monthEnd)

\* a result that is true from one tag on
HasMultipleTagsFromOne(interval) == Len(interval.tags) > 0

\* return interval.tags.length > 1
HasMultipleTags(interval) == Len(interval.tags) > 1

\* the tag buckets after the interval (second half of addIntervalToSummary)
AddTags(interval, duration, sum) ==
  LET tagKey == IF Len(interval.tags) > 0 THEN Join(interval.tags, <<",", " ">>) ELSE NoTag
  IN [sum EXCEPT
        !.tagDurations = addDurationToBucket(@, tagKey, duration),
        !.individualTagDurations =
            IF Len(interval.tags) > 0 THEN AddEachTag(@, interval.tags, duration)
            ELSE addDurationToBucket(@, NoTag, duration),
        !.hasMultiTagIntervals = @ \/ HasMultipleTags(interval)]

\* addIntervalToSummary and the update of hasMultiTagIntervals by its result
addIntervalToSummary(interval, monthStart, monthEnd, sum, now) ==
  LET effectiveStart == EffectiveStart(interval, monthStart)
      effectiveEnd == EffectiveEnd(interval, monthEnd, now)
      duration == effectiveEnd - effectiveStart
  IN IF effectiveEnd <= effectiveStart THEN sum
     ELSE AddTags(interval, duration,
                  [sum EXCEPT !.dailyDurations =
                     addDurationByDay(effectiveStart, effectiveEnd, @, monthStart)])

DaysInMonth(fileDate) == GetDate(MakeTime(fileDate.year, fileDate.month + 1, 0, 0, 0))
MonthStart(fileDate) == MakeTime(fileDate.year, fileDate.month, 1, 0, 0)
MonthEnd(fileDate) == MakeTime(fileDate.year, fileDate.month + 1, 1, 0, 0)

EmptySums(fileDate) ==
  [dailyDurations |-> [i \in 1..DaysInMonth(fileDate) |-> 0],
   tagDurations |-> <<>>,
   individualTagDurations |-> <<>>,
   hasMultiTagIntervals |-> FALSE]

\* for (const interval of intervals) { ... }
RECURSIVE Aggregate(_, _, _, _)
Aggregate(intervals, fileDate, sum, now) ==
  IF intervals = <<>> THEN sum
  ELSE Aggregate(Tail(intervals), fileDate,
                 addIntervalToSummary(Head(intervals), MonthStart(fileDate), MonthEnd(fileDate), sum, now),
                 now)

RECURSIVE SumSeq(_)
SumSeq(xs) == IF xs = <<>> THEN 0 ELSE Head(xs) + SumSeq(Tail(xs))

\* array.sort((a, b) => b.duration - a.duration): stable, descending; with
\* a duration that is a string the difference is NaN, which sort takes as
\* "equal" (the order is then implementation-defined; nothing here reads it)
RECURSIVE InsertByDuration(_, _)
InsertByDuration(sorted, x) ==
  IF sorted = <<>> THEN <<x>>
  ELSE IF x.numeric /\ Head(sorted).numeric /\ x.duration > Head(sorted).duration
       THEN <<x>> \o sorted
  ELSE <<Head(sorted)>> \o InsertByDuration(Tail(sorted), x)

RECURSIVE SortByDuration(_)
SortByDuration(entries) ==
  IF entries = <<>> THEN <<>>
  ELSE InsertByDuration(SortByDuration(SubSeq(entries, 1, Len(entries) - 1)), entries[Len(entries)])

\* estimatedDuration = duration * estimationFactor, the factor kept as the
\* fraction num / den; a string times a number is NaN (numeric FALSE)
TagSummaries(bucket, factor) ==
  SortByDuration([i \in 1..Len(bucket) |->
    [tag |-> bucket[i].tag,
     duration |-> bucket[i].duration,
     numeric |-> bucket[i].numeric,
     estimatedDuration |->
       [num |-> bucket[i].duration * factor.num, den |-> factor.den,
        numeric |-> bucket[i].numeric]]])

\* the MonthSummary of the intervals (the title left out)
MonthSummaryOf(sum, fileDate, now) ==
  LET monthIndex == fileDate.year * 12 + fileDate.month
      currentMonthIndex == GetFullYear(now) * 12 + GetMonth(now)
      estimationFactor ==
        IF monthIndex = currentMonthIndex
        THEN [num |-> DaysInMonth(fileDate), den |-> Max(1, GetDate(now))]
        ELSE [num |-> 1, den |-> 1]
  IN [dailyDurations |-> sum.dailyDurations,
      totalDuration |-> SumSeq(sum.dailyDurations),
      tags |-> TagSummaries(sum.tagDurations, estimationFactor),
      individualTags |-> TagSummaries(sum.individualTagDurations, estimationFactor),
      hasMultiTagIntervals |-> sum.hasMultiTagIntervals,
      showEstimation |-> monthIndex >= currentMonthIndex,
      estimationLabel |-> IF monthIndex = currentMonthIndex THEN "Estimated month end" ELSE "Estimation"]

createMonthSummary(intervals, fileDate, now) ==
  MonthSummaryOf(Aggregate(intervals, fileDate, EmptySums(fileDate), now), fileDate, now)

----------------------------------------------------------------------------
(* getMonthSummaryHtml: the cells of the tag tables of the panel.  A cell *)
(* is kept as the value it prints; an absent cell is the empty sequence.  *)

\* an estimation header that does not look at showEstimation
estimationHeaderCellAlways(summary) == <<summary.estimationLabel>>

\* the header cell of the estimation column: the label (escapeHtml leaves
\* both labels as they are), or nothing
estimationHeaderCell(summary) ==
  IF summary.showEstimation THEN <<summary.estimationLabel>> ELSE <<>>

\* the estimation cell of the row of a tag entry
estimationColumn(summary, tag) ==
  IF summary.showEstimation THEN <<tag.estimatedDuration>> ELSE <<>>

ZeroEstimate == [num |-> 0, den |-> 1, numeric |-> TRUE]

\* the estimation cell of the 'no data' row
emptyEstimationColumn(summary) ==
  IF summary.showEstimation THEN <<ZeroEstimate>> ELSE <<>>

NoData == <<"n", "o", " ", "d", "a", "t", "a">>

\* the rows of a tag table: one per entry, or the 'no data' row
TagRows(summary, entries) ==
  IF Len(entries) > 0
  THEN [i \in 1..Len(entries) |->
         [tag |-> entries[i].tag, duration |-> entries[i].duration,
          estimation |-> estimationColumn(summary, entries[i])]]
  ELSE << [tag |-> NoData, duration |-> 0, estimation |-> emptyEstimationColumn(summary)] >>

\* summary.tags.reduce((sum, curr) => sum + curr.estimatedDuration, 0): all
\* entries have the denominator of the one factor
RECURSIVE EstimatedTotal(_)
EstimatedTotal(entries) ==
  IF entries = <<>> THEN ZeroEstimate
  ELSE LET rest == EstimatedTotal(SubSeq(entries, 1, Len(entries) - 1))
           last == entries[Len(entries)].estimatedDuration
       IN [num |-> rest.num + last.num, den |-> last.den,
           numeric |-> rest.numeric /\ last.numeric]

estimationTotalCell(summary) ==
  IF summary.showEstimation THEN <<EstimatedTotal(summary.tags)>> ELSE <<>>

getMonthSummaryHtml(summary) ==
  [estimationHeaderCell |-> estimationHeaderCell(summary),
   rows |-> TagRows(summary, summary.tags),
   totalRow |-> [duration |-> summary.totalDuration,
                 estimation |-> estimationTotalCell(summary)],
   individualRows |-> TagRows(summary, summary.individualTags),
   individualSummarySection |-> summary.hasMultiTagIntervals]

----------------------------------------------------------------------------
(* The scenario: one data file, of February 2024 *)

FileDate == [year |-> 2024, month |-> 1]

\* day d of the month of the data file, at h:mi
At(d, h, mi) == MakeTime(FileDate.year, FileDate.month, d, h, mi)

TagW == <<"w">>
TagO == <<"o">>
TagRR == <<"r", " ", "r">>
TagConstructor == <<"c", "o", "n", "s", "t", "r", "u", "c", "t", "o", "r">>

\* the intervals an initial data file is made of
StoredPool ==
  << Interval(At(1, 8, 0), At(1, 10, 0), FALSE, <<TagO>>),
     Interval(At(1, 13, 0), At(1, 15, 30), FALSE, <<TagW, TagRR>>),
     Interval(At(1, 22, 0), 0, TRUE, <<TagW>>),
     Interval(At(2, 0, 0), At(2, 1, 0), FALSE, <<TagW>>) >>

\* at most one open interval, and no interval starts after it
ActiveTracker(intervals) ==
  \A i \in 1..Len(intervals) :
    intervals[i].open =>
      \A j \in 1..Len(intervals) :
        j # i => ~intervals[j].open /\ intervals[j].start <= intervals[i].start

\* the initial files: up to MaxStore different intervals of the pool in any
\* file order, with a legal active tracker
InitStores ==
  { [k \in 1..Len(pick) |-> StoredPool[pick[k]]] :
      pick \in { p \in UNION { [1..n -> 1..Len(StoredPool)] : n \in 0..MaxStore } :
                   /\ \A a, b \in 1..Len(p) : a # b => p[a] # p[b]
                   /\ ActiveTracker([k \in 1..Len(p) |-> StoredPool[p[k]]]) } }

\* the current instants of the scenario
NowValues == { At(2, 1, 0) }

\* the rows a save message is made of
RowPool ==
  << Row(<<"1", "0", ":", "0", "0">>, <<"0", "9", ":", "0", "0">>, <<"w">>),
     Row(<<"0", "9", ":", "0", "0">>, <<"1", "7", ":", "0", "0">>, <<",", " ">>),
     Row(<<" ", "0", "8", ":", "0", "0">>, <<"0", "8", ":", "3", "0", " ">>,
         <<"w", ",", " ", "r", " ", "r", ",">>),
     Row(<<"0", "9", ":", "0", "0">>, <<"0", "9", ":", "0", "0">>, <<"o">>),
     Row(<<>>, <<"1", "0", ":", "0", "0">>, <<"o">>),
     Row(<<"2", "4", ":", "0", "0">>, <<"2", "5", ":", "0", "0">>, <<"w">>),
     Row(<<"9">>, <<"1", "0", ":", "0", "0">>, <<>>),
     Row(<<"a", "9", ":", "0", "0">>, <<"1", "0", ":", "0", "0">>, <<>>) >>

\* n consecutive rows of the pool from row i on (the pool taken as a cycle)
RowWindow(i, n) == [k \in 1..n |-> RowPool[((i + k - 2) % Len(RowPool)) + 1]]

RowLists == { RowWindow(i, n) : i \in 1..Len(RowPool), n \in 0..MaxRows }

----------------------------------------------------------------------------
(* State *)

VARIABLES
  content,      \* the content of the data file
  cache,        \* the cached intervals of the DataFile object
  now,          \* the current instant
  editors,      \* day.start of the open day editor panels
  panelOpen,    \* #monthSummaryPanels has a panel for the data file
  panelHtml,    \* the summary that panel shows
  pc,           \* "done" when a saveDay call has ended and is not yet reported
  day,          \* its day.start
  rows,         \* its rows
  replacement,  \* its replacementIntervals
  intervals,    \* the intervals it read
  result,       \* how it ended
  preContent,   \* the content when it began
  effects,      \* what it did, in order
  saves         \* number of saveDay calls so far

saveVars == <<content, cache, now, editors, panelOpen, panelHtml,
              pc, day, rows, replacement, intervals, result, preContent, effects, saves>>

\* the variables of a saveDay call
callVars == <<pc, day, rows, replacement, intervals, result, preContent, effects>>

\* createMonthSummary step by step
VARIABLES
  aggPc,         \* where createMonthSummary is
  aggIntervals,  \* the intervals of the data file
  aggNow,        \* the current instant
  aggIndex,      \* index of the interval of the for loop
  aggSum,        \* dailyDurations, the two tag buckets and hasMultiTagIntervals
  aggBefore,     \* aggSum before the interval of the for loop
  aggCursor,     \* cursor of addDurationByDay
  aggRangeEnd,   \* rangeEnd of addDurationByDay
  aggSteps,      \* iterations of the loop of addDurationByDay for this interval
  aggSummary     \* the MonthSummary returned

aggVars == <<aggPc, aggIntervals, aggNow, aggIndex, aggSum, aggBefore,
             aggCursor, aggRangeEnd, aggSteps, aggSummary>>

\* the script of a day editor panel
VARIABLES
  webRows,       \* the rows of the table: start, end and tags input values
  webDisabled,   \* saveButton.disabled
  webStatus,     \* status.textContent
  webPosted      \* what the last event did with the save message

webVars == <<webRows, webDisabled, webStatus, webPosted>>

\* the History view
VARIABLES
  histFiles,     \* the dates of this.dataFiles, in the order of the array
  histNow,       \* the current instant
  histRoot,      \* the children of the root, once asked for
  histOpened     \* the children of the year groups asked for

histVars == <<histFiles, histNow, histRoot, histOpened>>

\* saveDay calls that overlap
VARIABLES
  ovContent,     \* the content of the data file
  ovCache,       \* the cached intervals of the DataFile object
  ovCalls        \* the saveDay calls: where each is, and its local values

ovVars == <<ovContent, ovCache, ovCalls>>

\* the month summary panels
VARIABLES
  pnContent,     \* the content of each data file
  pnCache,       \* the cached intervals of each data file
  pnRegistry,    \* #monthSummaryPanels: the panel of each key
  pnPanels,      \* the webview panels created, in the order of creation
  pnSave         \* the data file a saveDay call has written and not yet returned from

pnVars == <<pnContent, pnCache, pnRegistry, pnPanels, pnSave>>

\* one call of addDurationByDay
VARIABLES
  dyPc,          \* where the call is: in the loop, or returned
  dyRangeStart,  \* the argument rangeStart
  dyRangeEnd,    \* the argument rangeEnd
  dyInitial,     \* the argument dailyDurations, as it was passed
  dyDurations,   \* dailyDurations
  dyCursor,      \* the cursor of the loop
  dySteps        \* the iterations made

dyVars == <<dyPc, dyRangeStart, dyRangeEnd, dyInitial, dyDurations, dyCursor, dySteps>>

NotLoaded == [loaded |-> FALSE, intervals |-> <<>>]
Loaded(list) == [loaded |-> TRUE, intervals |-> list]

\* DataFile.getIntervals: the cached intervals, read from the file when
\* there are none
GetIntervalsOf(fileCache, fileContent) ==
  IF fileCache.loaded THEN fileCache.intervals ELSE ReadIntervals(fileContent)

getIntervals == GetIntervalsOf(cache, content)

\* DataFile.invalidateIntervals: the cached intervals are dropped
invalidateIntervals(fileCache) == NotLoaded

\* the panel rendered first and the cache invalidated afterwards
PanelIntervalsBeforeInvalidate(fileCache, written) == GetIntervalsOf(fileCache, written)

\* the intervals createMonthSummary gets for the panel at the end of
\* saveDay: after writeFile and invalidateIntervals
PanelIntervals(fileCache, written) ==
  GetIntervalsOf(invalidateIntervals(fileCache), written)

NoHtml == [set |-> FALSE, summary |-> createMonthSummary(<<>>, FileDate, 0)]
Html(summary) == [set |-> TRUE, summary |-> summary]

\* day.start of the day nodes of the History view: the latest start of each
\* day that has intervals
TreeDays ==
  LET list == getIntervals IN
  { list[i].start : i \in { i \in 1..Len(list) :
      \A j \in 1..Len(list) : isSameDay(list[j].start, list[i].start) => list[j].start <= list[i].start } }

NoCall ==
  /\ pc = "idle"
  /\ day = 0
  /\ rows = <<>>
  /\ replacement = <<>>
  /\ intervals = <<>>
  /\ result = "none"
  /\ preContent = <<>>
  /\ effects = <<>>

SaveInit ==
  /\ content \in { StoreText(FileFormatAll(store)) : store \in InitStores }
  /\ cache = NotLoaded
  /\ now \in NowValues
  /\ editors = {}
  /\ panelOpen = FALSE
  /\ panelHtml = NoHtml
  /\ NoCall
  /\ saves = 0

----------------------------------------------------------------------------
(* Actions.  The handlers run one at a time (section 5 of the               *)
(* specification: single writer, operations atomic to one another), so a   *)
(* handler is one action; effects lists what a saveDay call did, in order. *)

\* dayEditor(day) for a day node of the History view or, by editToday, for
\* today: reads the intervals and opens an editor panel that keeps day.start
dayEditor(dayStart) ==
  /\ pc = "idle"
  /\ Cardinality(editors \cup {dayStart}) <= MaxEditors
  /\ cache' = Loaded(getIntervals)
  /\ editors' = editors \cup {dayStart}
  /\ UNCHANGED <<content, now, panelOpen, panelHtml, callVars, saves>>
  /\ UNCHANGED <<aggVars, webVars, histVars, ovVars, pnVars, dyVars>>

\* the user closes a day editor panel
CloseDayEditor(dayStart) ==
  /\ pc = "idle"
  /\ dayStart \in editors
  /\ editors' = editors \ {dayStart}
  /\ UNCHANGED <<content, cache, now, panelOpen, panelHtml, callVars, saves>>
  /\ UNCHANGED <<aggVars, webVars, histVars, ovVars, pnVars, dyVars>>

\* renderMonthSummaryPanel(panel, dataFile): createMonthSummary gets the
\* intervals of the data file, then the panel's title and html are set
renderMonthSummaryPanel(fileIntervals) ==
  /\ cache' = Loaded(fileIntervals)
  /\ panelHtml' = Html(createMonthSummary(fileIntervals, FileDate, now))

\* monthSummary(dataFile): reveals the panel of the file or creates and
\* registers one, and renders it
monthSummary ==
  /\ pc = "idle"
  /\ panelOpen' = TRUE
  /\ renderMonthSummaryPanel(getIntervals)
  /\ UNCHANGED <<content, now, editors, callVars, saves>>
  /\ UNCHANGED <<aggVars, webVars, histVars, ovVars, pnVars, dyVars>>

\* a save message of an editor panel: saveDay(day, rows), to its return or
\* to the error it throws
saveDay(dayStart, messageRows) ==
  /\ pc = "idle"
  /\ saves < MaxSaves
  /\ dayStart \in editors
  /\ pc' = "done"
  /\ day' = dayStart
  /\ rows' = messageRows
  /\ saves' = saves + 1
  /\ preContent' = content
  /\ LET made == ReplacementIntervals(CleanRows(messageRows), dayStart) IN
       /\ replacement' = made.intervals
       /\ IF made.error # "none"
          THEN \* a row threw: nothing after the map is executed
               /\ result' = made.error
               /\ intervals' = <<>>
               /\ effects' = <<>>
               /\ UNCHANGED <<content, cache, panelHtml>>
          ELSE LET existing == getIntervals
                   written == WrittenContent(Merged(Kept(existing, dayStart), made.intervals))
               IN /\ result' = "saved"
                  /\ intervals' = existing
                  \* await writeFile
                  /\ content' = written
                  \* invalidateIntervals(), then the panel of the file, if
                  \* any, is rendered from the intervals read again
                  /\ IF panelOpen
                     THEN /\ renderMonthSummaryPanel(PanelIntervals(cache, written))
                          /\ effects' = <<"write", "invalidate", "render">>
                     ELSE /\ cache' = invalidateIntervals(cache)
                          /\ panelHtml' = panelHtml
                          /\ effects' = <<"write", "invalidate">>
  /\ UNCHANGED <<now, editors, panelOpen>>
  /\ UNCHANGED <<aggVars, webVars, histVars, ovVars, pnVars, dyVars>>

\* the message handler after saveDay shows 'Saved ...' or 'Could not save
\* day: ...', and the call is over
SaveReport ==
  /\ pc = "done"
  /\ pc' = "idle"
  /\ day' = 0
  /\ rows' = <<>>
  /\ replacement' = <<>>
  /\ intervals' = <<>>
  /\ result' = "none"
  /\ preContent' = <<>>
  /\ effects' = <<>>
  /\ UNCHANGED <<content, cache, now, editors, panelOpen, panelHtml, saves>>
  /\ UNCHANGED <<aggVars, webVars, histVars, ovVars, pnVars, dyVars>>

SaveNext ==
  \/ \E d \in TreeDays \cup {now} : dayEditor(d)
  \/ \E d \in editors : CloseDayEditor(d)
  \/ monthSummary
  \/ \E d \in editors, rs \in RowLists : saveDay(d, rs)
  \/ SaveReport

----------------------------------------------------------------------------
(* createMonthSummary step by step: one interval after the other, and one  *)
(* iteration of the loop of addDurationByDay after the other               *)

\* the intervals a summarized collection is made of
AggPool ==
  << Interval(MakeTime(2024, 0, 31, 22, 0), At(1, 2, 0), FALSE, <<TagW>>),
     Interval(At(1, 22, 0), At(3, 1, 0), FALSE, <<TagW, TagRR>>),
     Interval(At(29, 23, 0), MakeTime(2024, 2, 1, 1, 0), FALSE, <<>>),
     Interval(MakeTime(2024, 0, 30, 10, 0), MakeTime(2024, 0, 30, 11, 0), FALSE, <<TagW, TagO>>),
     Interval(MakeTime(2024, 2, 1, 0, 0), MakeTime(2024, 2, 1, 2, 0), FALSE, <<TagO>>),
     Interval(At(5, 9, 0), At(5, 12, 0), FALSE, <<TagW>>),
     Interval(MakeTime(2024, 0, 31, 23, 0), 0, TRUE, <<TagO>>),
     Interval(MakeTime(2024, 0, 31, 20, 0), At(1, 0, 0), FALSE, <<TagO, TagW>>),
     Interval(At(6, 9, 0), At(6, 10, 0), FALSE, <<TagConstructor>>),
     Interval(At(1, 22, 0), 0, TRUE, <<TagW>>) >>

AggInputs ==
  { [k \in 1..Len(pick) |-> AggPool[pick[k]]] :
      pick \in UNION { [1..n -> 1..Len(AggPool)] : n \in 0..MaxAggIntervals } }

\* the current instants: in the month before the file's, in it, after it
AggNowValues == { MakeTime(2024, 0, 10, 12, 0), At(2, 1, 0), At(10, 9, 0), MakeTime(2024, 2, 5, 8, 0) }

NoSummary == [set |-> FALSE, summary |-> createMonthSummary(<<>>, FileDate, 0)]
Summary(summary) == [set |-> TRUE, summary |-> summary]

AggStart(list, instant) ==
  /\ aggPc = "next"
  /\ aggIntervals = list
  /\ aggNow = instant
  /\ aggIndex = 1
  /\ aggSum = EmptySums(FileDate)
  /\ aggBefore = EmptySums(FileDate)
  /\ aggCursor = 0
  /\ aggRangeEnd = 0
  /\ aggSteps = 0
  /\ aggSummary = NoSummary

AggInit == \E list \in AggInputs, instant \in AggNowValues : AggStart(list, instant)

\* addIntervalToSummary returns false: the clipped span is empty
AggSkip ==
  /\ aggPc = "next"
  /\ aggIndex <= Len(aggIntervals)
  /\ LET interval == aggIntervals[aggIndex] IN
       EffectiveEnd(interval, MonthEnd(FileDate), aggNow) <= EffectiveStart(interval, MonthStart(FileDate))
  /\ aggBefore' = aggSum
  /\ aggIndex' = aggIndex + 1
  /\ aggSteps' = 0
  /\ UNCHANGED <<aggPc, aggIntervals, aggNow, aggSum, aggCursor, aggRangeEnd, aggSummary>>
  /\ UNCHANGED <<saveVars, webVars, histVars, ovVars, pnVars, dyVars>>

\* addIntervalToSummary calls addDurationByDay with the clipped span
AggClip ==
  /\ aggPc = "next"
  /\ aggIndex <= Len(aggIntervals)
  /\ LET interval == aggIntervals[aggIndex]
         effectiveStart == EffectiveStart(interval, MonthStart(FileDate))
         effectiveEnd == EffectiveEnd(interval, MonthEnd(FileDate), aggNow)
     IN /\ ~(effectiveEnd <= effectiveStart)
        /\ aggCursor' = effectiveStart
        /\ aggRangeEnd' = effectiveEnd
  /\ aggBefore' = aggSum
  /\ aggSteps' = 0
  /\ aggPc' = "days"
  /\ UNCHANGED <<aggIntervals, aggNow, aggIndex, aggSum, aggSummary>>
  /\ UNCHANGED <<saveVars, webVars, histVars, ovVars, pnVars, dyVars>>

\* one iteration of while (cursor < rangeEnd)
AggDayStep ==
  /\ aggPc = "days"
  /\ aggCursor < aggRangeEnd
  /\ LET step == DayStep(aggCursor, aggRangeEnd, aggSum.dailyDurations, MonthStart(FileDate)) IN
       /\ aggCursor' = step.cursor
       /\ aggSum' = [aggSum EXCEPT !.dailyDurations = step.dailyDurations]
  /\ aggSteps' = aggSteps + 1
  /\ UNCHANGED <<aggPc, aggIntervals, aggNow, aggIndex, aggBefore, aggRangeEnd, aggSummary>>
  /\ UNCHANGED <<saveVars, webVars, histVars, ovVars, pnVars, dyVars>>

\* the loop is left; the tag buckets and the result of addIntervalToSummary
AggTags ==
  /\ aggPc = "days"
  /\ ~(aggCursor < aggRangeEnd)
  /\ LET interval == aggIntervals[aggIndex]
         duration == EffectiveEnd(interval, MonthEnd(FileDate), aggNow)
                       - EffectiveStart(interval, MonthStart(FileDate))
     IN aggSum' = AddTags(interval, duration, aggSum)
  /\ aggIndex' = aggIndex + 1
  /\ aggPc' = "next"
  /\ UNCHANGED <<aggIntervals, aggNow, aggBefore, aggCursor, aggRangeEnd, aggSteps, aggSummary>>
  /\ UNCHANGED <<saveVars, webVars, histVars, ovVars, pnVars, dyVars>>

\* after the for loop: the estimation and the returned MonthSummary
AggFinish ==
  /\ aggPc = "next"
  /\ aggIndex > Len(aggIntervals)
  /\ aggSummary' = Summary(MonthSummaryOf(aggSum, FileDate, aggNow))
  /\ aggPc' = "done"
  /\ UNCHANGED <<aggIntervals, aggNow, aggIndex, aggSum, aggBefore, aggCursor, aggRangeEnd, aggSteps>>
  /\ UNCHANGED <<saveVars, webVars, histVars, ovVars, pnVars, dyVars>>

AggNext ==
  \/ AggSkip
  \/ AggClip
  \/ AggDayStep
  \/ AggTags
  \/ AggFinish

----------------------------------------------------------------------------
(* Specifications *)

----------------------------------------------------------------------------
(* saveDay calls of the editor panels of one data file, step by step: a    *)
(* call is suspended at await getIntervals() and at await writeFile(...),  *)
(* and the message of another panel is handled meanwhile                   *)

\* the rows of the save messages
OvRowLists == { RowWindow(2, 1), RowWindow(3, 1) }

\* the days of the editor panels
OvDays == { At(1, 0, 0), At(2, 0, 0) }

NotCalled ==
  [pc |-> "idle", day |-> 0, replacement |-> <<>>, intervals |-> <<>>,
   written |-> <<>>, result |-> "none"]

OvInit ==
  /\ ovContent \in { StoreText(FileFormatAll(store)) : store \in { x \in InitStores : Len(x) <= 1 } }
  /\ ovCache \in { NotLoaded, Loaded(ReadIntervals(ovContent)) }
  /\ ovCalls = [c \in 1..MaxCalls |-> NotCalled]

\* no save message
OvIdle ==
  /\ ovContent = <<>>
  /\ ovCache = NotLoaded
  /\ ovCalls = [c \in 1..MaxCalls |-> NotCalled]

\* a save message: saveDay(day, rows) up to await getIntervals(), or to the
\* error a row throws
OvBegin(c, dayStart, messageRows) ==
  /\ ovCalls[c].pc = "idle"
  /\ \A b \in 1..(c - 1) : ovCalls[b].pc # "idle"
  /\ LET made == ReplacementIntervals(CleanRows(messageRows), dayStart) IN
       ovCalls' = [ovCalls EXCEPT ![c] =
         [pc |-> IF made.error # "none" THEN "done" ELSE "read",
          day |-> dayStart,
          replacement |-> made.intervals,
          intervals |-> <<>>,
          written |-> <<>>,
          result |-> made.error]]
  /\ UNCHANGED <<ovContent, ovCache>>
  /\ UNCHANGED <<saveVars, aggVars, webVars, histVars, pnVars, dyVars>>

\* getIntervals() resolves; kept, merged and the content are computed and
\* writeFile is called
OvRead(c) ==
  /\ ovCalls[c].pc = "read"
  /\ LET existing == GetIntervalsOf(ovCache, ovContent) IN
       /\ ovCache' = Loaded(existing)
       /\ ovCalls' = [ovCalls EXCEPT ![c] =
            [@ EXCEPT !.pc = "write",
                      !.intervals = existing,
                      !.written = WrittenContent(Merged(Kept(existing, ovCalls[c].day),
                                                        ovCalls[c].replacement))]]
  /\ UNCHANGED ovContent
  /\ UNCHANGED <<saveVars, aggVars, webVars, histVars, pnVars, dyVars>>

\* the file is written
OvWrite(c) ==
  /\ ovCalls[c].pc = "write"
  /\ ovContent' = ovCalls[c].written
  /\ ovCalls' = [ovCalls EXCEPT ![c] = [@ EXCEPT !.pc = "resume"]]
  /\ UNCHANGED ovCache
  /\ UNCHANGED <<saveVars, aggVars, webVars, histVars, pnVars, dyVars>>

\* writeFile resolves: invalidateIntervals(), and the call returns (no month
\* summary panel is open)
OvResume(c) ==
  /\ ovCalls[c].pc = "resume"
  /\ ovCache' = invalidateIntervals(ovCache)
  /\ ovCalls' = [ovCalls EXCEPT ![c] = [@ EXCEPT !.pc = "done", !.result = "saved"]]
  /\ UNCHANGED ovContent
  /\ UNCHANGED <<saveVars, aggVars, webVars, histVars, pnVars, dyVars>>

OvNext ==
  \/ \E c \in 1..MaxCalls, d \in OvDays, rs \in OvRowLists : OvBegin(c, d, rs)
  \/ \E c \in 1..MaxCalls : OvRead(c)
  \/ \E c \in 1..MaxCalls : OvWrite(c)
  \/ \E c \in 1..MaxCalls : OvResume(c)

----------------------------------------------------------------------------
(* The month summary panels: monthSummary, renderMonthSummaryPanel,        *)
(* refreshOpenMonthSummaries, the end of saveDay and the disposal of a     *)
(* panel.  A render is suspended at await createMonthSummary(dataFile);    *)
(* other handlers run before it goes on.                                   *)

\* the data files, by uri.toString()
PnUris == { 1, 2 }

\* the contents a data file gets
PnContents == { StoreText(FileFormatAll(store)) : store \in { <<>>, <<StoredPool[1]>> } }

PnNow == At(2, 1, 0)

\* a panel of createWebviewPanel; rendering counts the renders in flight
NewPanel(key) == [uri |-> key, state |-> "open", html |-> NoHtml, rendering |-> 0]

\* no panel: one that was never created, or a disposed one nothing refers to
NoPanel == [uri |-> 0, state |-> "none", html |-> NoHtml, rendering |-> 0]

\* the renders in flight, of the panels 1..n
RECURSIVE InFlightUpTo(_, _)
InFlightUpTo(panels, n) ==
  IF n = 0 THEN 0 ELSE panels[n].rendering + InFlightUpTo(panels, n - 1)

InFlight(panels) == InFlightUpTo(panels, MaxPanels)

FreePanels(panels) == { p \in 1..MaxPanels : panels[p].state = "none" }

\* mutant: the registry is not consulted
ExistingPanelNever(registry, key) == 0

\* this.#monthSummaryPanels.get(key); 0 is undefined
ExistingPanel(registry, key) == IF key \in DOMAIN registry THEN registry[key] ELSE 0

\* this.#monthSummaryPanels.set(key, panel)
RegistrySet(registry, key, panel) ==
  [k \in DOMAIN registry \cup {key} |-> IF k = key THEN panel ELSE registry[k]]

\* this.#monthSummaryPanels.delete(key)
RegistryDelete(registry, key) == [k \in DOMAIN registry \ {key} |-> registry[k]]

\* renderMonthSummaryPanel(panel, dataFile) up to await createMonthSummary
StartRender(panels, p) ==
  [panels EXCEPT ![p] = [@ EXCEPT !.rendering = @ + 1]]

\* the renders refreshOpenMonthSummaries starts: one for each entry of the
\* registry whose data file is among dataFiles
RefreshAll(panels, registry) ==
  [p \in 1..MaxPanels |->
     IF \E k \in DOMAIN registry : registry[k] = p THEN StartRender(panels, p)[p] ELSE panels[p]]

PnInit ==
  /\ pnContent \in [PnUris -> PnContents]
  /\ pnCache = [u \in PnUris |-> NotLoaded]
  /\ pnRegistry = <<>>
  /\ pnPanels = [p \in 1..MaxPanels |-> NoPanel]
  /\ pnSave = 0

\* no data file
PnIdle ==
  /\ pnContent = <<>>
  /\ pnCache = <<>>
  /\ pnRegistry = <<>>
  /\ pnPanels = <<>>
  /\ pnSave = 0

\* monthSummary(dataFile) up to the await of the render
PnMonthSummary(key) ==
  /\ InFlight(pnPanels) < MaxRenders
  /\ LET existingPanel == ExistingPanel(pnRegistry, key) IN
       IF existingPanel # 0
       THEN /\ pnPanels' = StartRender(pnPanels, existingPanel)
            /\ UNCHANGED pnRegistry
       ELSE /\ FreePanels(pnPanels) # {}
            /\ LET panel == CHOOSE p \in FreePanels(pnPanels) :
                              \A q \in FreePanels(pnPanels) : p <= q
               IN /\ pnRegistry' = RegistrySet(pnRegistry, key, panel)
                  /\ pnPanels' = StartRender([pnPanels EXCEPT ![panel] = NewPanel(key)], panel)
  /\ UNCHANGED <<pnContent, pnCache, pnSave>>
  /\ UNCHANGED <<saveVars, aggVars, webVars, histVars, ovVars, dyVars>>

\* a render goes on after await createMonthSummary(dataFile): the intervals
\* of the data file are read, and the title and the html of the panel are
\* assigned.  The render does not look at the state of the panel: on a
\* disposed panel the assignment throws, and the panel is gone with the last
\* render that held it
PnRenderComplete(p) ==
  /\ pnPanels[p].rendering > 0
  /\ LET key == pnPanels[p].uri
         fileIntervals == GetIntervalsOf(pnCache[key], pnContent[key])
     IN /\ pnCache' = [pnCache EXCEPT ![key] = Loaded(fileIntervals)]
        /\ pnPanels' = [pnPanels EXCEPT ![p] =
             IF @.state = "disposed"
             THEN IF @.rendering = 1 THEN NoPanel ELSE [@ EXCEPT !.rendering = @ - 1]
             ELSE [@ EXCEPT !.rendering = @ - 1,
                            !.html = Html(createMonthSummary(fileIntervals, FileDate, PnNow))]]
  /\ UNCHANGED <<pnContent, pnRegistry, pnSave>>
  /\ UNCHANGED <<saveVars, aggVars, webVars, histVars, ovVars, dyVars>>

\* the user closes a panel: the onDidDispose listener deletes its key; the
\* webview is gone, and so is the panel unless a render still holds it
PnDispose(p) ==
  /\ pnPanels[p].state = "open"
  /\ pnPanels' = [pnPanels EXCEPT ![p] =
       IF @.rendering = 0 THEN NoPanel
       ELSE [@ EXCEPT !.state = "disposed", !.html = NoHtml]]
  /\ pnRegistry' = RegistryDelete(pnRegistry, pnPanels[p].uri)
  /\ UNCHANGED <<pnContent, pnCache, pnSave>>
  /\ UNCHANGED <<saveVars, aggVars, webVars, histVars, ovVars, dyVars>>

\* a data file changes and dataFileEvent fires with the data files read
\* anew: refreshOpenMonthSummaries starts a render for every open panel
PnDataFileEvent(key, text) ==
  /\ InFlight(pnPanels) + Cardinality(DOMAIN pnRegistry) <= MaxRenders
  /\ pnContent' = [pnContent EXCEPT ![key] = text]
  /\ pnCache' = [u \in PnUris |-> NotLoaded]
  /\ pnPanels' = RefreshAll(pnPanels, pnRegistry)
  /\ UNCHANGED <<pnRegistry, pnSave>>
  /\ UNCHANGED <<saveVars, aggVars, webVars, histVars, ovVars, dyVars>>

\* saveDay: the merged content is written to the data file
PnSaveWrite(key, text) ==
  /\ pnSave = 0
  /\ pnContent' = [pnContent EXCEPT ![key] = text]
  /\ pnSave' = key
  /\ UNCHANGED <<pnCache, pnRegistry, pnPanels>>
  /\ UNCHANGED <<saveVars, aggVars, webVars, histVars, ovVars, dyVars>>

\* saveDay goes on after await writeFile: invalidateIntervals(), and the
\* panel of the data file, when there is one, is rendered
PnSaveResume ==
  /\ pnSave # 0
  /\ InFlight(pnPanels) < MaxRenders
  /\ pnCache' = [pnCache EXCEPT ![pnSave] = invalidateIntervals(@)]
  /\ LET monthPanel == ExistingPanel(pnRegistry, pnSave) IN
       pnPanels' = IF monthPanel # 0 THEN StartRender(pnPanels, monthPanel) ELSE pnPanels
  /\ pnSave' = 0
  /\ UNCHANGED <<pnContent, pnRegistry>>
  /\ UNCHANGED <<saveVars, aggVars, webVars, histVars, ovVars, dyVars>>

PnNext ==
  \/ \E key \in PnUris : PnMonthSummary(key)
  \/ \E p \in 1..MaxPanels : PnRenderComplete(p)
  \/ \E p \in 1..MaxPanels : PnDispose(p)
  \/ \E key \in PnUris, text \in PnContents : PnDataFileEvent(key, text)
  \/ \E key \in PnUris, text \in PnContents : PnSaveWrite(key, text)
  \/ PnSaveResume

----------------------------------------------------------------------------
(* addDurationByDay(rangeStart, rangeEnd, dailyDurations, monthStart) on   *)
(* its own, one iteration of its loop after the other, for ranges that are *)
(* not clipped to the month                                                *)

\* the instants the ranges are made of: before the month, in it, after it
DyInstants ==
  { MakeTime(2024, 0, 30, 10, 0), MakeTime(2024, 0, 31, 22, 0), At(1, 0, 0), At(1, 2, 0),
    At(2, 0, 0), At(3, 1, 0), At(29, 23, 0), MakeTime(2024, 2, 1, 0, 0),
    MakeTime(2024, 2, 2, 1, 0) }

\* the bucket arrays: the one of createMonthSummary, after an interval of
\* the first day, and one that is shorter than the month
DyArrays ==
  { EmptySums(FileDate).dailyDurations,
    [EmptySums(FileDate).dailyDurations EXCEPT ![1] = 120],
    <<0>> }

DyInit ==
  /\ dyPc = "loop"
  /\ dyRangeStart \in DyInstants
  /\ dyRangeEnd \in DyInstants
  /\ dyRangeStart < dyRangeEnd
  /\ dyInitial \in DyArrays
  /\ dyDurations = dyInitial
  /\ dyCursor = dyRangeStart
  /\ dySteps = 0

\* no call
DyIdle ==
  /\ dyPc = "idle"
  /\ dyRangeStart = 0
  /\ dyRangeEnd = 0
  /\ dyInitial = <<>>
  /\ dyDurations = <<>>
  /\ dyCursor = 0
  /\ dySteps = 0

\* one iteration of while (cursor < rangeEnd)
DyStep ==
  /\ dyPc = "loop"
  /\ dyCursor < dyRangeEnd
  /\ LET step == DayStep(dyCursor, dyRangeEnd, dyDurations, MonthStart(FileDate)) IN
       /\ dyCursor' = step.cursor
       /\ dyDurations' = step.dailyDurations
  /\ dySteps' = dySteps + 1
  /\ UNCHANGED <<dyPc, dyRangeStart, dyRangeEnd, dyInitial>>
  /\ UNCHANGED <<saveVars, aggVars, webVars, histVars, ovVars, pnVars>>

\* the loop is left and the call returns
DyReturn ==
  /\ dyPc = "loop"
  /\ ~(dyCursor < dyRangeEnd)
  /\ dyPc' = "returned"
  /\ UNCHANGED <<dyRangeStart, dyRangeEnd, dyInitial, dyDurations, dyCursor, dySteps>>
  /\ UNCHANGED <<saveVars, aggVars, webVars, histVars, ovVars, pnVars>>

DyNext ==
  \/ DyStep
  \/ DyReturn

----------------------------------------------------------------------------
(* DataFileTreeProvider.getChildren: the root of the History view and the *)
(* children of a year group.  A data file is its date, the first day of   *)
(* its month.                                                              *)

\* sort((obj1, obj2) => obj2.date.getTime() - obj1.date.getTime()): stable,
\* latest first
RECURSIVE InsertByDateDescending(_, _)
InsertByDateDescending(sorted, x) ==
  IF sorted = <<>> THEN <<x>>
  ELSE IF x > Head(sorted) THEN <<x>> \o sorted
  ELSE <<Head(sorted)>> \o InsertByDateDescending(Tail(sorted), x)

RECURSIVE SortByDateDescending(_)
SortByDateDescending(files) ==
  IF files = <<>> THEN <<>>
  ELSE InsertByDateDescending(SortByDateDescending(SubSeq(files, 1, Len(files) - 1)),
                              files[Len(files)])

\* a filter that leaves the files of the current year out
TopLevelDataFilesAfterYear(files, currentYear) ==
  SelectSeq(files, LAMBDA f : GetFullYear(f) > currentYear)

TopLevelDataFiles(files, currentYear) ==
  SelectSeq(files, LAMBDA f : GetFullYear(f) >= currentYear)

PreviousYears(files, currentYear) ==
  SelectSeq(files, LAMBDA f : GetFullYear(f) < currentYear)

YearEntry(year, files) == [year |-> year, files |-> files]

\* prev[year].push(curr), a new key taking its place among the keys of the
\* object: integer keys are enumerated in ascending order
RECURSIVE PushToYear(_, _, _)
PushToYear(grouped, year, file) ==
  IF grouped = <<>> THEN <<YearEntry(year, <<file>>)>>
  ELSE IF Head(grouped).year = year
       THEN <<YearEntry(year, Append(Head(grouped).files, file))>> \o Tail(grouped)
  ELSE IF Head(grouped).year > year
       THEN <<YearEntry(year, <<file>>)>> \o grouped
  ELSE <<Head(grouped)>> \o PushToYear(Tail(grouped), year, file)

\* Object.entries(previousYears.reduce(...))
RECURSIVE Grouped(_)
Grouped(files) ==
  IF files = <<>> THEN <<>>
  ELSE PushToYear(Grouped(SubSeq(files, 1, Len(files) - 1)),
                  GetFullYear(files[Len(files)]), files[Len(files)])

\* sort(([year1], [year2]) => Number(year2) - Number(year1))
RECURSIVE InsertByYearDescending(_, _)
InsertByYearDescending(sorted, x) ==
  IF sorted = <<>> THEN <<x>>
  ELSE IF x.year > Head(sorted).year THEN <<x>> \o sorted
  ELSE <<Head(sorted)>> \o InsertByYearDescending(Tail(sorted), x)

RECURSIVE SortByYearDescending(_)
SortByYearDescending(entries) ==
  IF entries = <<>> THEN <<>>
  ELSE InsertByYearDescending(SortByYearDescending(SubSeq(entries, 1, Len(entries) - 1)),
                              entries[Len(entries)])

FileNode(file) == [kind |-> "file", date |-> file, year |-> 0, dataFiles |-> <<>>]
YearGroup(year, files) == [kind |-> "year", date |-> 0, year |-> year, dataFiles |-> files]

\* getChildren(): [...topLevelDataFiles, ...yearGroups]
RootChildren(files, instant) ==
  LET dataFiles == SortByDateDescending(files)
      currentYear == GetFullYear(instant)
      topLevelDataFiles == TopLevelDataFiles(dataFiles, currentYear)
      yearGroups == SortByYearDescending(Grouped(PreviousYears(dataFiles, currentYear)))
  IN [i \in 1..Len(topLevelDataFiles) |-> FileNode(topLevelDataFiles[i])]
     \o [i \in 1..Len(yearGroups) |-> YearGroup(yearGroups[i].year, yearGroups[i].files)]

\* getChildren(yearGroup)
YearGroupChildren(group) == SortByDateDescending(group.dataFiles)

\* the months data files are of, and the current instants
FilePool ==
  << MakeTime(2024, 1, 1, 0, 0), MakeTime(2024, 10, 1, 0, 0), MakeTime(2025, 2, 1, 0, 0),
     MakeTime(2025, 11, 1, 0, 0), MakeTime(2026, 0, 1, 0, 0) >>

HistNowValues == { MakeTime(2024, 5, 15, 12, 0), MakeTime(2025, 5, 15, 12, 0), MakeTime(2026, 5, 15, 12, 0) }

\* up to MaxFiles different files, in any order
HistInputs ==
  { [k \in 1..Len(pick) |-> FilePool[pick[k]]] :
      pick \in { p \in UNION { [1..n -> 1..Len(FilePool)] : n \in 0..MaxFiles } :
                   \A a, b \in 1..Len(p) : a # b => p[a] # p[b] } }

NoChildren == [set |-> FALSE, items |-> <<>>]
Children(items) == [set |-> TRUE, items |-> items]

HistInit ==
  /\ histFiles \in HistInputs
  /\ histNow \in HistNowValues
  /\ histRoot = NoChildren
  /\ histOpened = {}

\* no History view
HistIdle ==
  /\ histFiles = <<>>
  /\ histNow = 0
  /\ histRoot = NoChildren
  /\ histOpened = {}

\* the view asks for the children of the root
HistGetRoot ==
  /\ ~histRoot.set
  /\ histRoot' = Children(RootChildren(histFiles, histNow))
  /\ UNCHANGED <<histFiles, histNow, histOpened>>
  /\ UNCHANGED <<saveVars, aggVars, webVars, ovVars, pnVars, dyVars>>

\* the view asks for the children of year group k of the root
HistGetYearGroup(k) ==
  /\ histRoot.set
  /\ histRoot.items[k].kind = "year"
  /\ \A o \in histOpened : o.year # histRoot.items[k].year
  /\ histOpened' = histOpened \cup
       { YearEntry(histRoot.items[k].year, YearGroupChildren(histRoot.items[k])) }
  /\ UNCHANGED <<histFiles, histNow, histRoot>>
  /\ UNCHANGED <<saveVars, aggVars, webVars, ovVars, pnVars, dyVars>>

HistNext ==
  \/ HistGetRoot
  \/ \E k \in 1..Len(histRoot.items) : HistGetYearGroup(k)

----------------------------------------------------------------------------
(* The day editor panel: the rows dayEditor puts in the page, and the      *)
(* script of the page                                                      *)

\* String(n).padStart(2, '0') of a number below 100
Pad2(n) == <<Digits[(n \div 10) + 1], Digits[(n % 10) + 1]>>

getTimeInputValue(date) == Pad2(GetHours(date)) \o <<":">> \o Pad2(GetMinutes(date))

\* day.intervals of a day node: the intervals of the file that start on the
\* day
RECURSIVE DayIntervals(_, _)
DayIntervals(list, dayStart) ==
  IF list = <<>> THEN <<>>
  ELSE (IF isSameDay(Head(list).start, dayStart) THEN <<Head(list)>> ELSE <<>>)
       \o DayIntervals(Tail(list), dayStart)

\* the rows of dayEditor: the intervals of the day by start, the end of an
\* open interval being the current instant
EditorRows(list, instant) ==
  LET sorted == SortByStart(list) IN
  [i \in 1..Len(sorted) |->
    Row(getTimeInputValue(sorted[i].start),
        getTimeInputValue(IF sorted[i].open THEN instant ELSE sorted[i].end),
        Join(sorted[i].tags, <<",", " ">>))]

\* /^[0-9]{2}:[0-9]{2}$/.test(value)
isValidTime(value) ==
  /\ Len(value) = 5
  /\ IsDigit(value[1]) /\ IsDigit(value[2])
  /\ value[3] = ":"
  /\ IsDigit(value[4]) /\ IsDigit(value[5])

\* value.split(':').map(Number), hour * 60 + minute; called on valid times
toMinutes(value) ==
  LET parts == MapToNumber(Split(value, ":")) IN
  parts[1].v * MinutesPerHour + parts[2].v

TimeMessage == "Start and end must be valid time values."
OrderMessage == "End must be after start."

\* a validation that lets a row with end = start pass
validateRowAllowingEqual(row) ==
  IF ~isValidTime(row.start) \/ ~isValidTime(row.end) THEN TimeMessage
  ELSE IF toMinutes(row.end) < toMinutes(row.start) THEN OrderMessage
  ELSE ""

validateRow(row) ==
  IF ~isValidTime(row.start) \/ ~isValidTime(row.end) THEN TimeMessage
  ELSE IF toMinutes(row.end) <= toMinutes(row.start) THEN OrderMessage
  ELSE ""

\* invalidMessages of refreshValidation: the row number and the message of
\* the rows with a message
RECURSIVE InvalidMessages(_, _)
InvalidMessages(tableRows, index) ==
  IF index > Len(tableRows) THEN <<>>
  ELSE LET message == validateRow(tableRows[index]) IN
       (IF message # "" THEN << [row |-> index, message |-> message] >> ELSE <<>>)
       \o InvalidMessages(tableRows, index + 1)

AllValidStatus == [row |-> 0, message |-> "All rows valid."]
NoEntriesStatus == [row |-> 0, message |-> "No entries. Add at least one row to save."]

\* refreshValidation: status.textContent and saveButton.disabled
refreshValidation(tableRows) ==
  LET invalidMessages == InvalidMessages(tableRows, 1) IN
  IF Len(invalidMessages) > 0
  THEN [status |-> invalidMessages[1], disabled |-> TRUE]
  ELSE [status |-> IF Len(tableRows) > 0 THEN AllValidStatus ELSE NoEntriesStatus,
        disabled |-> Len(tableRows) = 0]

\* createRow(): the default row
DefaultRow == Row(<<"0", "9", ":", "0", "0">>, <<"1", "7", ":", "0", "0">>, <<>>)

\* the values typed or picked in a time input
WebTimes == { <<>>, <<"0", "9", ":", "0", "0">>, <<"1", "7", ":", "0", "0">> }

NoEvent == [clicked |-> FALSE, sent |-> FALSE, rows |-> <<>>]
NotSent == [clicked |-> TRUE, sent |-> FALSE, rows |-> <<>>]
SaveMessage(collected) == [clicked |-> TRUE, sent |-> TRUE, rows |-> collected]

\* the page starts with the given rows: with none the script adds the
\* default row, otherwise it validates
WebLoad(initialRows) ==
  LET tableRows == IF Len(initialRows) = 0 THEN <<DefaultRow>> ELSE initialRows IN
  /\ webRows = tableRows
  /\ webDisabled = refreshValidation(tableRows).disabled
  /\ webStatus = refreshValidation(tableRows).status
  /\ webPosted = NoEvent

\* the pages dayEditor makes of a day that has no interval or one interval
\* of the pool
WebInit ==
  \E store \in { x \in InitStores : Len(x) <= 1 }, instant \in NowValues,
     d \in {At(1, 0, 0), At(2, 0, 0)} :
    WebLoad(EditorRows(DayIntervals(store, d), instant))

\* no day editor page
WebIdle ==
  /\ webRows = <<>>
  /\ webDisabled = TRUE
  /\ webStatus = NoEntriesStatus
  /\ webPosted = NoEvent

Refreshed(tableRows) ==
  LET refreshed == refreshValidation(tableRows) IN
  /\ webRows' = tableRows
  /\ webDisabled' = refreshed.disabled
  /\ webStatus' = refreshed.status

RemoveAt(list, i) == SubSeq(list, 1, i - 1) \o SubSeq(list, i + 1, Len(list))

InsertAfter(list, i, x) == SubSeq(list, 1, i) \o <<x>> \o SubSeq(list, i + 1, Len(list))

\* click on 'Add entry': addRow()
WebAddRow ==
  /\ Len(webRows) < MaxWebRows
  /\ Refreshed(Append(webRows, DefaultRow))
  /\ webPosted' = NoEvent
  /\ UNCHANGED <<saveVars, aggVars, histVars, ovVars, pnVars, dyVars>>

\* click on the Remove button of row i
WebRemoveRow(i) ==
  /\ Refreshed(RemoveAt(webRows, i))
  /\ webPosted' = NoEvent
  /\ UNCHANGED <<saveVars, aggVars, histVars, ovVars, pnVars, dyVars>>

\* input event of the start or the end input of row i
WebInput(i, field, value) ==
  /\ Refreshed([webRows EXCEPT ![i] =
       IF field = "start" THEN Row(value, webRows[i].end, webRows[i].tags)
       ELSE Row(webRows[i].start, value, webRows[i].tags)])
  /\ webPosted' = NoEvent
  /\ UNCHANGED <<saveVars, aggVars, histVars, ovVars, pnVars, dyVars>>

\* Ctrl+Enter in row i: a default row is inserted after it; the validation
\* is not refreshed
WebCtrlEnter(i) ==
  /\ Len(webRows) < MaxWebRows
  /\ webRows' = InsertAfter(webRows, i, DefaultRow)
  /\ webPosted' = NoEvent
  /\ UNCHANGED <<webDisabled, webStatus>>
  /\ UNCHANGED <<saveVars, aggVars, histVars, ovVars, pnVars, dyVars>>

\* Ctrl+Backspace in row i
WebCtrlBackspace(i) ==
  /\ Refreshed(RemoveAt(webRows, i))
  /\ webPosted' = NoEvent
  /\ UNCHANGED <<saveVars, aggVars, histVars, ovVars, pnVars, dyVars>>

\* a click event of the Save button: the handler validates again and posts
\* the collected rows unless the button is disabled
WebSaveClick ==
  /\ Refreshed(webRows)
  /\ webPosted' = IF webDisabled' THEN NotSent ELSE SaveMessage(webRows)
  /\ UNCHANGED <<saveVars, aggVars, histVars, ovVars, pnVars, dyVars>>

WebNext ==
  \/ WebAddRow
  \/ \E i \in 1..Len(webRows) : WebRemoveRow(i)
  \/ \E i \in 1..Len(webRows), field \in {"start", "end"}, value \in WebTimes :
       WebInput(i, field, value)
  \/ \E i \in 1..Len(webRows) : WebCtrlEnter(i)
  \/ \E i \in 1..Len(webRows) : WebCtrlBackspace(i)
  \/ WebSaveClick

vars == <<saveVars, aggVars, webVars, histVars, ovVars, pnVars, dyVars>>

\* no month summary is computed step by step
AggIdle == AggStart(<<>>, 0)

\* no data file is edited
SaveIdle ==
  /\ content = <<>>
  /\ cache = NotLoaded
  /\ now = 0
  /\ editors = {}
  /\ panelOpen = FALSE
  /\ panelHtml = NoHtml
  /\ NoCall
  /\ saves = 0

\* the day editor and the month-summary panel of one data file
Init == SaveInit /\ AggIdle /\ WebIdle /\ HistIdle /\ OvIdle /\ PnIdle /\ DyIdle
Next == SaveNext
Spec == Init /\ [][Next]_vars

\* createMonthSummary of a collection of intervals
InitAgg == AggInit /\ SaveIdle /\ WebIdle /\ HistIdle /\ OvIdle /\ PnIdle /\ DyIdle
NextAgg == AggNext
SpecAgg == InitAgg /\ [][NextAgg]_vars

\* the script of a day editor page
InitWeb == WebInit /\ SaveIdle /\ AggIdle /\ HistIdle /\ OvIdle /\ PnIdle /\ DyIdle
NextWeb == WebNext
SpecWeb == InitWeb /\ [][NextWeb]_vars

\* the History view
InitHist == HistInit /\ SaveIdle /\ AggIdle /\ WebIdle /\ OvIdle /\ PnIdle /\ DyIdle
NextHist == HistNext
SpecHist == InitHist /\ [][NextHist]_vars

\* overlapping saveDay calls
InitOverlap == OvInit /\ SaveIdle /\ AggIdle /\ WebIdle /\ HistIdle /\ PnIdle /\ DyIdle
NextOverlap == OvNext
SpecOverlap == InitOverlap /\ [][NextOverlap]_vars

\* the month summary panels
InitPanels == PnInit /\ SaveIdle /\ AggIdle /\ WebIdle /\ HistIdle /\ OvIdle /\ DyIdle
NextPanels == PnNext
SpecPanels == InitPanels /\ [][NextPanels]_vars

\* addDurationByDay on its own; a call that has begun runs on
InitDays == DyInit /\ SaveIdle /\ AggIdle /\ WebIdle /\ HistIdle /\ OvIdle /\ PnIdle
NextDays == DyNext
SpecDays == InitDays /\ [][NextDays]_vars /\ WF_vars(NextDays)

----------------------------------------------------------------------------
(* Claims about saveDay (specification Spec) *)

\* the saveDay call has ended; it is successful when it returned
CallEnded == pc = "done"
Saved == pc = "done" /\ result = "saved"

\* the intervals of the data file before the call and now
Before == ReadIntervals(preContent)
After == ReadIntervals(content)

Count(x, list) == Cardinality({ i \in 1..Len(list) : list[i] = x })

SameIntervals(list1, list2) ==
  /\ Len(list1) = Len(list2)
  /\ \A i \in 1..Len(list1) : Count(list1[i], list1) = Count(list1[i], list2)

RECURSIVE OnDay(_, _)
OnDay(list, d) ==
  IF list = <<>> THEN <<>>
  ELSE (IF isSameDay(Head(list).start, d) THEN <<Head(list)>> ELSE <<>>) \o OnDay(Tail(list), d)

RECURSIVE OtherDays(_, _)
OtherDays(list, d) ==
  IF list = <<>> THEN <<>>
  ELSE (IF isSameDay(Head(list).start, d) THEN <<>> ELSE <<Head(list)>>) \o OtherDays(Tail(list), d)

\* the rows of the call that have a start and an end, trimmed
RECURSIVE Surviving(_)
Surviving(list) ==
  IF list = <<>> THEN <<>>
  ELSE (IF Trim(Head(list).start) # <<>> /\ Trim(Head(list).end) # <<>>
        THEN <<Row(Trim(Head(list).start), Trim(Head(list).end), Trim(Head(list).tags))>>
        ELSE <<>>) \o Surviving(Tail(list))

\* a time text that is an hour and a minute, both numeric, separated by ':'
TwoNumbers(text) ==
  LET parts == Split(text, ":") IN
  Len(parts) >= 2 /\ ToNumber(parts[1]).k = "num" /\ ToNumber(parts[2]).k = "num"

Unparseable(row) == ~TwoNumbers(row.start) \/ ~TwoNumbers(row.end)

\* the timestamp of a time text of two numbers on the day of d
TimeOn(d, text) ==
  LET parts == Split(text, ":") IN
  MakeTime(GetFullYear(d), GetMonth(d), GetDate(d), ToNumber(parts[1]).v, ToNumber(parts[2]).v)

EndNotLater(row, d) == ~Unparseable(row) /\ TimeOn(d, row.end) <= TimeOn(d, row.start)

FailsValidation(row, d) == Unparseable(row) \/ EndNotLater(row, d)

SomeFails(list, d) == \E k \in 1..Len(list) : FailsValidation(list[k], d)

\* the first row of a list that fails validation
FirstFailingOf(list, d) ==
  list[CHOOSE k \in 1..Len(list) :
     /\ FailsValidation(list[k], d)
     /\ \A j \in 1..(k - 1) : ~FailsValidation(list[j], d)]

SomeRowFails == SomeFails(Surviving(rows), day)
FirstFailing == FirstFailingOf(Surviving(rows), day)

Sorted(list) == \A k \in 1..(Len(list) - 1) : list[k].start <= list[k + 1].start

\* C1 as stated: after a successful saveDay every interval of the file that
\* is not on the target day is in the written store exactly as many times as
\* before the save.  Violated: a row whose hour is 24 or more passes the
\* validation of saveDay and gives an interval on the following day, which
\* can be a second copy of an interval that is already there.
C1_OtherDaysKeptExactly ==
  Saved =>
    LET before == Before
        after == After
    IN \A i \in 1..Len(before) :
         ~isSameDay(before[i].start, day) => Count(before[i], after) = Count(before[i], before)

\* C2: when a surviving row of a saveDay call fails validation (a time that
\* is not two numbers, or end <= start), the call ends with an error and has
\* written nothing, invalidated nothing and rendered nothing, whatever the
\* other rows are: the content of the file, the cached intervals and the
\* month-summary panel are as they were before the call.
C2_InvalidRowAbortsBeforeWrite ==
  [][(pc = "idle" /\ pc' = "done" /\ SomeFails(Surviving(rows'), day'))
       => /\ result' \notin {"saved", "none"}
          /\ effects' = <<>>
          /\ UNCHANGED <<content, cache, panelOpen, panelHtml>>]_vars

\* C2 witness: a call whose first row is valid and whose next row has an end
\* that is not after its start ended in the error, with the intervals cached
\* and a month-summary panel open
C2_Witness ==
  /\ CallEnded
  /\ result = "EndNotAfterStart"
  /\ Len(Surviving(rows)) >= 2
  /\ ~FailsValidation(Surviving(rows)[1], day)
  /\ cache.loaded
  /\ panelOpen
  /\ content # <<>>

\* C3 as stated: after a successful saveDay for day D the intervals of the
\* written store that start on D are the intervals built from the surviving
\* rows, one per row, each with its start and its end on D.  Violated: a row
\* with an hour of 24 or more is accepted and its interval starts or ends on
\* a following day.
C3_TargetDayIsTheRows ==
  Saved =>
    /\ Len(replacement) = Len(Surviving(rows))
    /\ SameIntervals(OnDay(After, day), replacement)
    /\ \A k \in 1..Len(replacement) :
         /\ isSameDay(replacement[k].start, day)
         /\ ~replacement[k].open
         /\ isSameDay(replacement[k].end, day)

\* C4: after a successful saveDay the written store lists its intervals in
\* non-decreasing order of start, and the content is the lines separated by
\* newlines with one trailing newline, or empty when there is no interval.
C4_WrittenStoreSorted ==
  Saved =>
    /\ LET after == After IN Sorted(after) /\ Len(content) = 2 * Len(after)
    /\ \A k \in 1..Len(content) : content[k].nl <=> (k % 2 = 0)

\* C4 witness: a successful save into a file whose kept intervals were not in
\* order of start, with the rows not in order of start either
C4_Witness ==
  /\ Saved
  /\ ~Sorted(OtherDays(Before, day))
  /\ ~Sorted(replacement)
  /\ Len(After) >= 4

\* C5 as stated: when the first surviving row that fails validation has a
\* start or end text that is not two numeric components, saveDay fails with
\* 'Invalid time values'.  Violated by a text of one component ("9"):
\* Number.isNaN(undefined) is false.
C5_InvalidTimeValuesReported ==
  CallEnded =>
    LET surviving == Surviving(rows) IN
    (SomeFails(surviving, day) /\ Unparseable(FirstFailingOf(surviving, day)))
      => result = "InvalidTimeValues"

\* C6: when a surviving row has end <= start (equal included), saveDay fails,
\* with 'End time must be after start time' when that row is the first that
\* fails validation; and no closed interval of the file has end <= start.
C6_EndMustBeAfterStart ==
  /\ CallEnded =>
       LET surviving == Surviving(rows) IN
       /\ (\E k \in 1..Len(surviving) : EndNotLater(surviving[k], day)) => result # "saved"
       /\ (SomeFails(surviving, day) /\ EndNotLater(FirstFailingOf(surviving, day), day))
            => result = "EndNotAfterStart"
  /\ LET after == After IN
       \A i \in 1..Len(after) : after[i].open \/ after[i].end > after[i].start

\* C6 witness: a call whose first failing row has the same start and end
C6_Witness ==
  /\ CallEnded
  /\ SomeRowFails
  /\ ~Unparseable(FirstFailing)
  /\ TimeOn(day, FirstFailing.end) = TimeOn(day, FirstFailing.start)
  /\ result = "EndNotAfterStart"

\* C7 as stated: after a successful save into a file with a legal active
\* tracker (every initial file has one) the store has at most one open
\* interval and no interval starts after it.  Violated: a save for a day
\* after the day of the open interval adds closed intervals after it.
C7_ActiveTrackerKept == Saved => ActiveTracker(After)

\* C8: a saveDay call in which no row survives succeeds; the written store
\* has no interval on the target day and has all the intervals of the other
\* days, and its content is empty when there are none.
C8_NoSurvivingRowClearsDay ==
  (CallEnded /\ Surviving(rows) = <<>>) =>
    LET after == After
        others == OtherDays(Before, day)
    IN /\ result = "saved"
       /\ OnDay(after, day) = <<>>
       /\ SameIntervals(after, others)
       /\ (others = <<>> => content = <<>>)

\* C8 witness: a successful save of rows none of which survives, for a day
\* that had intervals, in a file with intervals on another day
C8_Witness ==
  /\ Saved
  /\ rows # <<>>
  /\ Surviving(rows) = <<>>
  /\ OnDay(Before, day) # <<>>
  /\ OtherDays(Before, day) # <<>>

----------------------------------------------------------------------------
(* Claims about createMonthSummary (specification SpecAgg) *)

\* the interval createMonthSummary has just finished with
Processed == aggPc \in {"next", "done"} /\ aggIndex > 1
LastInterval == aggIntervals[aggIndex - 1]

\* the resolved span [start, end) of an interval; an open one ends now
SpanStart(interval) == interval.start
SpanEnd(interval) == IF interval.open THEN aggNow ELSE interval.end

FullyOutside(interval) ==
  \/ SpanEnd(interval) <= MonthStart(FileDate)
  \/ SpanStart(interval) >= MonthEnd(FileDate)

\* C9: an interval whose resolved span is fully outside the month window
\* (end <= monthStart or start >= monthEnd) leaves every daily bucket, every
\* combined-tag and individual-tag bucket and hasMultiTagIntervals as they
\* were, and addDurationByDay is never entered for it.
C9_OutsideContributesNothing ==
  /\ (Processed /\ FullyOutside(LastInterval)) =>
       /\ aggSum.dailyDurations = aggBefore.dailyDurations
       /\ aggSum.tagDurations = aggBefore.tagDurations
       /\ aggSum.individualTagDurations = aggBefore.individualTagDurations
       /\ aggSum.hasMultiTagIntervals = aggBefore.hasMultiTagIntervals
  /\ aggPc = "days" => ~FullyOutside(aggIntervals[aggIndex])

\* C9 witness: an interval with two tags that ends exactly at the start of
\* the month has been processed after one that was counted
C9_Witness ==
  /\ Processed
  /\ SpanEnd(LastInterval) = MonthStart(FileDate)
  /\ Len(LastInterval.tags) > 1
  /\ aggBefore.tagDurations # <<>>
  /\ ~aggBefore.hasMultiTagIntervals

\* the local midnights around day d of the month (d from 1)
DayBegin(d) == MakeTime(FileDate.year, FileDate.month, d, 0, 0)
DayEnd(d) == MakeTime(FileDate.year, FileDate.month, d + 1, 0, 0)

ClippedStart(interval) ==
  IF SpanStart(interval) > MonthStart(FileDate) THEN SpanStart(interval) ELSE MonthStart(FileDate)
ClippedEnd(interval) ==
  IF SpanEnd(interval) < MonthEnd(FileDate) THEN SpanEnd(interval) ELSE MonthEnd(FileDate)

\* the part of the clipped span of an interval between the midnights of day d
DayShare(interval, d) ==
  LET from == IF ClippedStart(interval) > DayBegin(d) THEN ClippedStart(interval) ELSE DayBegin(d)
      to == IF ClippedEnd(interval) < DayEnd(d) THEN ClippedEnd(interval) ELSE DayEnd(d)
  IN IF to > from THEN to - from ELSE 0

\* C10: for an interval that overlaps the month window the amounts added to
\* the daily buckets sum to min(end, monthEnd) - max(start, monthStart), and
\* the amount added to each day is the part of the clipped span between the
\* local midnights of that day.
C10_DailySharesSumToClipped ==
  (Processed /\ ~FullyOutside(LastInterval)) =>
    /\ SumSeq(aggSum.dailyDurations) - SumSeq(aggBefore.dailyDurations)
         = ClippedEnd(LastInterval) - ClippedStart(LastInterval)
    /\ \A d \in 1..Len(aggSum.dailyDurations) :
         aggSum.dailyDurations[d] - aggBefore.dailyDurations[d] = DayShare(LastInterval, d)

\* C10 witness: an interval that began before the month and is still open
\* after its end has been spread over every day of the month, after another
\* interval had been counted
C10_Witness ==
  /\ Processed
  /\ SpanStart(LastInterval) < MonthStart(FileDate)
  /\ SpanEnd(LastInterval) > MonthEnd(FileDate)
  /\ aggSteps = Len(aggSum.dailyDurations)
  /\ SumSeq(aggBefore.dailyDurations) > 0

\* createMonthSummary has returned
Summarized == aggPc = "done" /\ aggSummary.set
TheSummary == aggSummary.summary

RECURSIVE DurationSum(_)
DurationSum(entries) ==
  IF entries = <<>> THEN 0 ELSE Head(entries).duration + DurationSum(Tail(entries))

AllNumeric(entries) == \A i \in 1..Len(entries) : entries[i].numeric

\* the clipped duration of an interval in the summarized month, 0 when it
\* does not overlap it
Clipped(interval) ==
  IF FullyOutside(interval) \/ ClippedEnd(interval) <= ClippedStart(interval) THEN 0
  ELSE ClippedEnd(interval) - ClippedStart(interval)

\* a tag that names a property of Object.prototype
InheritedName(tag) == tag \in InheritedFunctions \/ tag = ProtoKey

CombinedKey(interval) ==
  IF interval.tags = <<>> THEN NoTag ELSE Join(interval.tags, <<",", " ">>)

\* C11 as stated: for every collection of intervals the durations of the
\* combined-tag entries of the month summary are numbers whose sum is
\* totalDuration, and an untagged interval that overlaps the month is counted
\* under 'no tag'.  Violated by an interval whose only tag is "constructor":
\* its bucket value is a string.
C11_CombinedTagsSumToTotal ==
  Summarized =>
    /\ AllNumeric(TheSummary.tags)
    /\ DurationSum(TheSummary.tags) = TheSummary.totalDuration
    /\ \A i \in 1..Len(aggIntervals) :
         (aggIntervals[i].tags = <<>> /\ Clipped(aggIntervals[i]) > 0)
           => \E k \in 1..Len(TheSummary.tags) :
                /\ TheSummary.tags[k].tag = NoTag
                /\ TheSummary.tags[k].duration >= Clipped(aggIntervals[i])

\* how often tag is in the tag list of an interval ('no tag' once for an
\* untagged interval)
Occurrences(tag, interval) ==
  IF interval.tags = <<>> THEN (IF tag = NoTag THEN 1 ELSE 0)
  ELSE Cardinality({ k \in 1..Len(interval.tags) : interval.tags[k] = tag })

\* the sum over the intervals list[1..n] of the clipped duration, once per
\* occurrence of tag
RECURSIVE TagShare(_, _, _)
TagShare(tag, list, n) ==
  IF n = 0 THEN 0
  ELSE TagShare(tag, list, n - 1) + Occurrences(tag, list[n]) * Clipped(list[n])

\* C12 as stated: the durations of the individual-tag entries are numbers
\* whose sum is at least totalDuration, and equal to it if and only if every
\* interval of the collection has at most one tag; every tag's entry is the
\* sum of the full clipped durations of the intervals that have the tag.
\* Violated by a tag such as "constructor" (its bucket value is a string),
\* and by an interval with two tags that lies outside the month (the sums are
\* equal although an interval has two tags).
C12_IndividualTagsSum ==
  Summarized =>
    /\ AllNumeric(TheSummary.individualTags)
    /\ DurationSum(TheSummary.individualTags) >= TheSummary.totalDuration
    /\ (DurationSum(TheSummary.individualTags) = TheSummary.totalDuration)
         <=> (\A i \in 1..Len(aggIntervals) : Len(aggIntervals[i].tags) <= 1)
    /\ \A k \in 1..Len(TheSummary.individualTags) :
         TheSummary.individualTags[k].duration
           = TagShare(TheSummary.individualTags[k].tag, aggIntervals, Len(aggIntervals))

\* year * 12 + month of the summarized month and of today
MonthIndex == FileDate.year * 12 + FileDate.month
CurrentMonthIndex == GetFullYear(aggNow) * 12 + GetMonth(aggNow)

NoEstimationCells(tableRows) ==
  \A i \in 1..Len(tableRows) : tableRows[i].estimation = <<>>

\* C13: showEstimation is true exactly when the summarized month is the
\* current month or a later one; the header of the estimation column is
\* 'Estimated month end' for the current month and 'Estimation' for a future
\* month; for a past month the panel has no label and no estimation cell in
\* any row of the two tag tables nor in the total row.
C13_EstimationShownFromCurrentMonth ==
  Summarized =>
    LET html == getMonthSummaryHtml(TheSummary) IN
    /\ TheSummary.showEstimation <=> (MonthIndex >= CurrentMonthIndex)
    /\ MonthIndex = CurrentMonthIndex
         => /\ TheSummary.estimationLabel = "Estimated month end"
            /\ html.estimationHeaderCell = <<"Estimated month end">>
    /\ MonthIndex > CurrentMonthIndex
         => /\ TheSummary.estimationLabel = "Estimation"
            /\ html.estimationHeaderCell = <<"Estimation">>
    /\ MonthIndex < CurrentMonthIndex
         => /\ html.estimationHeaderCell = <<>>
            /\ NoEstimationCells(html.rows)
            /\ NoEstimationCells(html.individualRows)
            /\ html.totalRow.estimation = <<>>

\* a summary of a past month that has tag entries
C13_Witness ==
  /\ Summarized
  /\ MonthIndex < CurrentMonthIndex
  /\ Len(TheSummary.tags) > 0

\* estimatedDuration of an entry is the number duration * num / den
EstimatedIs(entry, num, den) ==
  /\ entry.numeric
  /\ entry.estimatedDuration.numeric
  /\ entry.estimatedDuration.num * den = entry.duration * num * entry.estimatedDuration.den

\* the entry of a tag list has the duration of its bucket
DurationKept(entry, bucket) ==
  \E i \in 1..Len(bucket) :
    /\ bucket[i].tag = entry.tag
    /\ bucket[i].numeric = entry.numeric
    /\ bucket[i].duration = entry.duration

ProjectedAsStated(entries) ==
  \A k \in 1..Len(entries) :
    /\ MonthIndex = CurrentMonthIndex
         => EstimatedIs(entries[k], DaysInMonth(FileDate), Max(1, GetDate(aggNow)))
    /\ MonthIndex > CurrentMonthIndex => EstimatedIs(entries[k], 1, 1)

\* the example: April 2024 (30 days), today 10 April, 20 hours under "w"
ExampleSums ==
  [dailyDurations |-> [d \in 1..30 |-> IF d = 3 THEN 20 * MinutesPerHour ELSE 0],
   tagDurations |-> <<Entry(TagW, 20 * MinutesPerHour)>>,
   individualTagDurations |-> <<Entry(TagW, 20 * MinutesPerHour)>>,
   hasMultiTagIntervals |-> FALSE]

ExampleSummary ==
  MonthSummaryOf(ExampleSums, [year |-> 2024, month |-> 3], MakeTime(2024, 3, 10, 12, 0))

\* C14 as stated: for every entry of the combined and of the individual tag
\* list estimatedDuration is duration * daysInMonth / max(1, day of month of
\* today) in the current month and duration in a future month; the daily
\* buckets, totalDuration and the durations of the entries are those of the
\* aggregation; 20 hours on day 10 of a 30-day month are projected to 60.
\* Violated by a tag such as "constructor": its duration is a string and its
\* estimatedDuration is NaN.
C14_ProjectionScalesTagDurations ==
  Summarized =>
    /\ ProjectedAsStated(TheSummary.tags)
    /\ ProjectedAsStated(TheSummary.individualTags)
    /\ TheSummary.dailyDurations = aggSum.dailyDurations
    /\ TheSummary.totalDuration = SumSeq(aggSum.dailyDurations)
    /\ \A k \in 1..Len(TheSummary.tags) :
         DurationKept(TheSummary.tags[k], aggSum.tagDurations)
    /\ \A k \in 1..Len(TheSummary.individualTags) :
         DurationKept(TheSummary.individualTags[k], aggSum.individualTagDurations)
    /\ EstimatedIs(ExampleSummary.tags[1], 60 * MinutesPerHour, 20 * MinutesPerHour)
    /\ ExampleSummary.tags[1].estimatedDuration.num
         = 60 * MinutesPerHour * ExampleSummary.tags[1].estimatedDuration.den

\* the summary of the intervals a content holds
SummaryOfContent(text) == Html(createMonthSummary(ReadIntervals(text), FileDate, now))

\* C15: a successful saveDay writes the merged store, then invalidates the
\* cached intervals of the data file, then re-renders the month-summary
\* panel if one is open for the file, in this order and with no further
\* step; the summary the panel then shows is the summary of the content
\* after the save, and the cached intervals, where there are any again, are
\* those of that content.
C15_WriteInvalidateRender ==
  Saved =>
    /\ effects = IF panelOpen THEN <<"write", "invalidate", "render">>
                 ELSE <<"write", "invalidate">>
    /\ panelOpen => /\ panelHtml = SummaryOfContent(content)
                    /\ cache = Loaded(ReadIntervals(content))
    /\ ~panelOpen => cache = NotLoaded

\* a save with an open panel whose summary is no longer the one of the
\* content before the save
C15_Witness ==
  /\ Saved
  /\ panelOpen
  /\ effects = <<"write", "invalidate", "render">>
  /\ SummaryOfContent(content) # SummaryOfContent(preContent)
  /\ panelHtml = SummaryOfContent(content)

\* part is a run of consecutive characters of text
IsInfix(part, text) ==
  \E i \in 0..(Len(text) - Len(part)) : SubSeq(text, i + 1, i + Len(part)) = part

InQuotes(tag) == <<"\"">> \o tag \o <<"\"">>

\* the line of an interval is in the written file
Written(line) == \E k \in 1..Len(ReadLines(content)) : ReadLines(content)[k] = line

\* C16: for every interval saveDay builds from a validated row, the line
\* saveDay writes for it is read back as an interval with the same start,
\* end and tag list, and that interval is formatted as the same line again;
\* the tags of the interval are the tags of the row, and a tag with a blank
\* is in double quotes in the line and without them in the tag list.
C16_LineRoundTrip ==
  Saved =>
    LET survivors == Surviving(rows) IN
    /\ Len(replacement) = Len(survivors)
    /\ \A i \in 1..Len(replacement) :
         LET interval == replacement[i]
             line == fileFormat(interval)
             parsed == NewInterval(line)
         IN /\ Written(line)
            /\ parsed.ok
            /\ parsed.interval.start = interval.start
            /\ parsed.interval.end = interval.end
            /\ parsed.interval.tags = interval.tags
            /\ parsed.interval = interval
            /\ fileFormat(parsed.interval) = line
            /\ interval.tags = RowTags(survivors[i].tags)
            /\ \A k \in 1..Len(interval.tags) :
                 /\ ~Includes(interval.tags[k], "\"")
                 /\ Includes(interval.tags[k], " ")
                      => IsInfix(InQuotes(interval.tags[k]), line.tags)

\* a saved row with a plain tag and a tag with a blank
C16_Witness ==
  /\ Saved
  /\ \E i \in 1..Len(replacement) :
       /\ Len(replacement[i].tags) = 2
       /\ \E k \in 1..2 : Includes(replacement[i].tags[k], " ")
       /\ Written(fileFormat(replacement[i]))

\* a time text of two digits, ':' and two digits, and its minute of the day
HourMinuteForm(text) ==
  /\ Len(text) = 5
  /\ \A k \in {1, 2, 4, 5} : IsDigit(text[k])
  /\ text[3] = ":"

MinuteOfDay(text) ==
  (DigitValue(text[1]) * 10 + DigitValue(text[2])) * 60
    + DigitValue(text[4]) * 10 + DigitValue(text[5])

\* at least one row, and every row with a start and an end of the form
\* HH:MM, the end after the start
Sendable(tableRows) ==
  /\ Len(tableRows) >= 1
  /\ \A i \in 1..Len(tableRows) :
       /\ HourMinuteForm(tableRows[i].start)
       /\ HourMinuteForm(tableRows[i].end)
       /\ MinuteOfDay(tableRows[i].end) > MinuteOfDay(tableRows[i].start)

\* C17: the page posts a save message only with at least one row and with
\* every row holding a start and an end of the form HH:MM, the end strictly
\* after the start, and the message holds the rows of the table; in every
\* other state the Save button is disabled and a click event on it posts
\* nothing.
C17_SaveOnlyValidRows ==
  /\ webPosted.sent => (Sendable(webPosted.rows) /\ webPosted.rows = webRows)
  /\ ~Sendable(webRows) => (webDisabled /\ ~webPosted.sent)

\* a click on Save that posted nothing: a row of the table ends when it
\* starts
C17_Witness ==
  /\ webPosted.clicked
  /\ ~webPosted.sent
  /\ \E i \in 1..Len(webRows) :
       /\ HourMinuteForm(webRows[i].start)
       /\ webRows[i].end = webRows[i].start

HistItems == histRoot.items

\* how often a file is shown: at top level or in a year group
Shown(file) ==
  Cardinality({ k \in 1..Len(HistItems) : HistItems[k].kind = "file" /\ HistItems[k].date = file })
  + Cardinality({ <<k, j>> \in (1..Len(HistItems)) \X (1..Len(histFiles)) :
        /\ HistItems[k].kind = "year"
        /\ j <= Len(HistItems[k].dataFiles)
        /\ HistItems[k].dataFiles[j] = file })

NewestFirst(files) == \A j \in 1..(Len(files) - 1) : files[j] > files[j + 1]

\* C18: the root of the History view lists the files of the current year
\* or a later one at top level, newest first, then one year group for each
\* earlier year that has files, in descending year order; a group holds the
\* files of its year, newest first, also as the children it returns; every
\* data file is shown exactly once.
C18_HistoryRoot ==
  histRoot.set =>
    /\ \A k \in 1..(Len(HistItems) - 1) :
         HistItems[k].kind = "year" => HistItems[k + 1].kind = "year"
    /\ \A k \in 1..Len(HistItems) :
         HistItems[k].kind = "file" =>
           /\ GetFullYear(HistItems[k].date) >= GetFullYear(histNow)
           /\ \E j \in 1..Len(histFiles) : histFiles[j] = HistItems[k].date
           /\ (k < Len(HistItems) /\ HistItems[k + 1].kind = "file")
                => HistItems[k].date > HistItems[k + 1].date
    /\ \A k \in 1..Len(HistItems) :
         HistItems[k].kind = "year" =>
           /\ HistItems[k].year < GetFullYear(histNow)
           /\ k < Len(HistItems) => HistItems[k].year > HistItems[k + 1].year
           /\ Len(HistItems[k].dataFiles) >= 1
           /\ \A j \in 1..Len(HistItems[k].dataFiles) :
                /\ GetFullYear(HistItems[k].dataFiles[j]) = HistItems[k].year
                /\ \E i \in 1..Len(histFiles) : histFiles[i] = HistItems[k].dataFiles[j]
           /\ NewestFirst(HistItems[k].dataFiles)
           /\ \A o \in histOpened :
                o.year = HistItems[k].year => o.files = HistItems[k].dataFiles
    /\ \A j \in 1..Len(histFiles) :
         /\ Shown(histFiles[j]) = 1
         /\ GetFullYear(histFiles[j]) < GetFullYear(histNow)
              => \E k \in 1..Len(HistItems) :
                   HistItems[k].kind = "year" /\ HistItems[k].year = GetFullYear(histFiles[j])

\* a root with a file of the current year and a year group, and an opened
\* year group with two files
C18_Witness ==
  /\ histRoot.set
  /\ \E k \in 1..Len(HistItems) :
       HistItems[k].kind = "file" /\ GetFullYear(HistItems[k].date) = GetFullYear(histNow)
  /\ \E o \in histOpened : Len(o.files) >= 2
  /\ \E k \in 1..Len(HistItems) : HistItems[k].kind = "year"

\* the interval closed at the current instant
ClosedAtNow(interval) == Interval(interval.start, aggNow, FALSE, interval.tags)

\* the open interval of the example: started at 22:00 on 1 February, the
\* current instant being 01:00 on 2 February
ExampleOpen ==
  /\ Processed
  /\ LastInterval.open
  /\ LastInterval.start = At(1, 22, 0)
  /\ aggNow = At(2, 1, 0)

\* C19: an open interval changes the daily buckets, the tag buckets and
\* hasMultiTagIntervals exactly as the closed interval with the same start
\* and tags that ends at the current instant; its share of every day is the
\* part of [start, now) on that day; begun at 22:00 the day before with now
\* at 01:00, it adds 2 hours to the bucket of the day before and 1 hour to
\* the bucket of today.
C19_OpenIntervalEndsNow ==
  (Processed /\ LastInterval.open) =>
    /\ aggSum = addIntervalToSummary(ClosedAtNow(LastInterval), MonthStart(FileDate),
                                     MonthEnd(FileDate), aggBefore, aggNow)
    /\ \A d \in 1..DaysInMonth(FileDate) :
         aggSum.dailyDurations[d] - aggBefore.dailyDurations[d]
           = DayShare(ClosedAtNow(LastInterval), d)
    /\ ExampleOpen =>
         \A d \in 1..DaysInMonth(FileDate) :
           aggSum.dailyDurations[d] - aggBefore.dailyDurations[d]
             = IF d = 1 THEN 2 * MinutesPerHour
               ELSE IF d = 2 THEN 1 * MinutesPerHour
               ELSE 0

\* the example: the open interval of 22:00 processed at 01:00 of the next
\* day, with its 3 hours in the buckets
C19_Witness ==
  /\ ExampleOpen
  /\ SumSeq(aggSum.dailyDurations) = SumSeq(aggBefore.dailyDurations) + 3 * MinutesPerHour

\* an interval adds a non-zero clipped duration to the month and has two or
\* more tags
ContributesWithTags(interval) == Clipped(interval) > 0 /\ Len(interval.tags) >= 2

\* C20: hasMultiTagIntervals of the month summary is true exactly when some
\* interval with a non-zero clipped duration in the month has two or more
\* tags; an interval with two or more tags fully outside the month does not
\* set it.
C20_MultiTagFlag ==
  /\ Summarized =>
       (TheSummary.hasMultiTagIntervals
          <=> \E i \in 1..Len(aggIntervals) : ContributesWithTags(aggIntervals[i]))
  /\ (Processed /\ FullyOutside(LastInterval))
       => aggSum.hasMultiTagIntervals = aggBefore.hasMultiTagIntervals

\* a summary without the flag of a collection that has an interval with two
\* tags outside the month and an interval with one tag inside
C20_Witness ==
  /\ Summarized
  /\ ~TheSummary.hasMultiTagIntervals
  /\ TheSummary.totalDuration > 0
  /\ \E i \in 1..Len(aggIntervals) :
       Len(aggIntervals[i].tags) >= 2 /\ FullyOutside(aggIntervals[i])

\* a text without a blank at its beginning or at its end
NoOuterBlank(text) == text = <<>> \/ (text[1] # " " /\ text[Len(text)] # " ")

\* a text with a character that is not a blank
HasText(text) == \E k \in 1..Len(text) : text[k] # " "

\* the row of the call that interval number i of a saved call is built of:
\* row number j such that i of the rows up to it have a start and an end
RowOf(i) ==
  CHOOSE j \in 1..Len(rows) :
    /\ HasText(rows[j].start) /\ HasText(rows[j].end)
    /\ Cardinality({ k \in 1..j : HasText(rows[k].start) /\ HasText(rows[k].end) }) = i

Dropped(row) == ~HasText(row.start) \/ ~HasText(row.end)

\* C21: saveDay trims the three texts of every row and drops the rows whose
\* trimmed start or trimmed end is empty, raising no error for them: the
\* call succeeds exactly when no remaining row fails the validation, and a
\* saved call has built one interval for each remaining row, in the order of
\* the rows, of the trimmed texts, and none for a dropped row.
C21_EmptyRowsDropped ==
  CallEnded =>
    LET survivors == Surviving(rows)
        kept == { j \in 1..Len(rows) : ~Dropped(rows[j]) }
    IN /\ Len(survivors) = Cardinality(kept)
       /\ \A i \in 1..Len(survivors) :
            /\ NoOuterBlank(survivors[i].start) /\ survivors[i].start # <<>>
            /\ NoOuterBlank(survivors[i].end) /\ survivors[i].end # <<>>
            /\ NoOuterBlank(survivors[i].tags)
       /\ (result = "saved") <=> ~SomeFails(survivors, day)
       /\ Saved =>
            /\ Len(replacement) = Cardinality(kept)
            /\ \A i \in 1..Len(replacement) :
                 /\ replacement[i].start = TimeOn(day, Trim(rows[RowOf(i)].start))
                 /\ replacement[i].end = TimeOn(day, Trim(rows[RowOf(i)].end))
                 /\ replacement[i].tags = RowTags(Trim(rows[RowOf(i)].tags))

\* a saved call with a dropped row before a row that gave an interval
C21_Witness ==
  /\ Saved
  /\ Len(rows) = 2
  /\ Dropped(rows[1])
  /\ Len(replacement) = 1

\* the positions of the commas of a text, and the positions before its
\* first and after its last character
Commas(text) == {0, Len(text) + 1} \cup { k \in 1..Len(text) : text[k] = "," }

Least(set) == CHOOSE x \in set : \A y \in set : x <= y
Greatest(set) == CHOOSE x \in set : \A y \in set : x >= y

\* the piece between the comma at position c and the next one, without the
\* blanks around it
PieceAfter(text, c) ==
  LET next == Least({ k \in Commas(text) : k > c })
      inner == { k \in (c + 1)..(next - 1) : text[k] # " " }
  IN IF inner = {} THEN <<>> ELSE SubSeq(text, Least(inner), Greatest(inner))

\* the non-empty pieces of a text from the comma at position c on, in order
RECURSIVE PiecesFrom(_, _)
PiecesFrom(text, c) ==
  IF c > Len(text) THEN <<>>
  ELSE (IF PieceAfter(text, c) # <<>> THEN <<PieceAfter(text, c)>> ELSE <<>>)
       \o PiecesFrom(text, Least({ k \in Commas(text) : k > c }))

Pieces(text) == PiecesFrom(text, 0)

\* the tag segment of the line of a tag list: the tags separated by one
\* blank, those with a blank in double quotes
RECURSIVE TagSegment(_)
TagSegment(tags) ==
  IF tags = <<>> THEN <<>>
  ELSE (IF \E k \in 1..Len(Head(tags)) : Head(tags)[k] = " "
        THEN InQuotes(Head(tags)) ELSE Head(tags))
       \o (IF Len(tags) > 1 THEN <<" ">> ELSE <<>>)
       \o TagSegment(Tail(tags))

\* C22: the tag list of the interval built from a row is the sequence of
\* the comma-separated pieces of the tags text of the row, each trimmed, the
\* empty ones dropped, in their order; the line composed for the row and the
\* line written for the interval hold a piece with a blank in double quotes
\* and every other piece as it is, and hold no tag segment when the row has
\* no non-empty piece.
C22_TagsOfRow ==
  Saved =>
    \A i \in 1..Len(replacement) :
      LET pieces == Pieces(rows[RowOf(i)].tags) IN
      /\ replacement[i].tags = pieces
      /\ TagList(RowTags(Trim(rows[RowOf(i)].tags))) = TagSegment(pieces)
      /\ fileFormat(replacement[i]).tags = TagSegment(pieces)
      /\ Written(fileFormat(replacement[i]))
      /\ pieces = <<>> <=> fileFormat(replacement[i]).tags = <<>>

\* a saved call with a row whose tags text has commas and no piece, and a
\* row with a plain piece, a piece with a blank and an empty piece
C22_Witness ==
  /\ Saved
  /\ Len(replacement) = 2
  /\ Len(rows[RowOf(1)].tags) > 0 /\ replacement[1].tags = <<>>
  /\ Len(replacement[2].tags) = 2
  /\ fileFormat(replacement[2]).tags = <<"w", " ", "\"", "r", " ", "r", "\"">>

\* an instant on the calendar day of the call: same local year, month and
\* date as day.start
OnTargetDay(t) ==
  /\ GetFullYear(t) = GetFullYear(day)
  /\ GetMonth(t) = GetMonth(day)
  /\ GetDate(t) = GetDate(day)

\* C23 as stated: every interval a saved call has built from its rows has
\* its start and its end on the calendar day of the call.  Violated: the
\* row 24:00 - 25:00 passes the validation and gives an interval of the
\* following day.
C23_BuiltOnTargetDay ==
  Saved =>
    \A k \in 1..Len(replacement) :
      /\ OnTargetDay(replacement[k].start)
      /\ ~replacement[k].open
      /\ OnTargetDay(replacement[k].end)

\* all saveDay calls have been made and have returned
AllSaved == \A c \in 1..MaxCalls : ovCalls[c].pc = "done" /\ ovCalls[c].result = "saved"

\* C24 as stated: after saveDay calls for different days of one data file
\* have all returned, in whatever way their steps were interleaved, the
\* store holds the replacement intervals of each of them on its day.
\* Violated: a call that reads the intervals while another one is between
\* its read and its write writes a store without the intervals of the other.
C24_OverlappingSavesBothKept ==
  (AllSaved /\ \A b, c \in 1..MaxCalls : b # c => ~isSameDay(ovCalls[b].day, ovCalls[c].day))
    => \A c \in 1..MaxCalls :
         SameIntervals(OnDay(ReadIntervals(ovContent), ovCalls[c].day), ovCalls[c].replacement)

\* the panels that are open
OpenPanels == { p \in 1..MaxPanels : pnPanels[p].state = "open" }

\* the registry holds the open panels, each under the uri of its data file,
\* and no two open panels are of the same data file
RegistryOfOpenPanels ==
  /\ \A p, q \in OpenPanels : pnPanels[p].uri = pnPanels[q].uri => p = q
  /\ DOMAIN pnRegistry = { pnPanels[p].uri : p \in OpenPanels }
  /\ \A key \in DOMAIN pnRegistry :
       pnRegistry[key] \in OpenPanels /\ pnPanels[pnRegistry[key]].uri = key

\* monthSummary for a data file that has a panel creates none and starts a
\* render of that panel; the disposal of a panel removes its key
RevealsAndRemoves ==
  /\ \A key \in PnUris :
       (PnMonthSummary(key) /\ key \in DOMAIN pnRegistry) =>
         /\ pnRegistry' = pnRegistry
         /\ \A p \in 1..MaxPanels : pnPanels'[p].state = pnPanels[p].state
         /\ pnPanels'[pnRegistry[key]].rendering = pnPanels[pnRegistry[key]].rendering + 1
  /\ \A p \in 1..MaxPanels :
       PnDispose(p) => pnPanels[p].uri \notin DOMAIN pnRegistry'

\* C25: at every moment the registry of month summary panels has one entry
\* for each open panel, under the uri of its data file, and none for a
\* disposed one, so that no data file has two open panels; monthSummary for
\* a data file that has a panel renders that panel again and creates none,
\* also while an earlier render of it is in flight, and the disposal of a
\* panel removes its entry.
C25_OnePanelPerDataFile == []RegistryOfOpenPanels /\ [][RevealsAndRemoves]_vars

\* a panel was disposed while a render held it, monthSummary has made a new
\* panel for the same data file, and the registry has the new one
C25_Witness ==
  \E p \in OpenPanels, q \in 1..MaxPanels :
    /\ pnPanels[q].state = "disposed"
    /\ pnPanels[q].uri = pnPanels[p].uri
    /\ pnRegistry[pnPanels[p].uri] = p
    /\ pnPanels[p].rendering >= 1

\* an open panel no render of which is in flight, and no save of whose data
\* file is about to render it, shows the summary of the content of the file
ShowsLatest ==
  \A p \in OpenPanels :
    (pnPanels[p].rendering = 0 /\ pnSave # pnPanels[p].uri) =>
      pnPanels[p].html =
        Html(createMonthSummary(ReadIntervals(pnContent[pnPanels[p].uri]), FileDate, PnNow))

\* no render of several in flight assigns to a panel that has been disposed
NoWriteAfterDispose ==
  \A p \in 1..MaxPanels :
    ~(pnPanels[p].state = "disposed" /\ pnPanels[p].rendering >= 2 /\ PnRenderComplete(p))

\* C26 as stated: when all the renders of a month summary panel that were in
\* flight at once have completed, the panel shows the summary of the latest
\* content of the data file, and no render assigns to the panel after its
\* disposal.  Violated: a render that finds its panel disposed assigns to it
\* all the same.
C26_RendersLatestNeverDisposed == []ShowsLatest /\ [][NoWriteAfterDispose]_vars

\* the day an instant is of, counted from the first day of 2024
DayNumber(t) == t \div MinutesPerDay

\* the calendar days the range rangeStart .. rangeEnd has an instant of
DaysTouched == DayNumber(dyRangeEnd - 1) - DayNumber(dyRangeStart) + 1

\* the day of an instant is a day of the month of the data file
InTargetMonth(t) == MonthStart(FileDate) <= t /\ t < MonthEnd(FileDate)

\* the index the day of an instant has in the bucket array, from 0
DayIndexOf(t) == DayNumber(t) - DayNumber(MonthStart(FileDate))

\* the cursor never passes rangeEnd and is there when the call has
\* returned, an iteration is made for a day of the range at most, and the
\* bucket array has the length it was passed with
LoopWithinRange ==
  /\ dyPc # "idle" =>
       /\ dyRangeStart <= dyCursor /\ dyCursor <= dyRangeEnd
       /\ dySteps <= DaysTouched
       /\ Len(dyDurations) = Len(dyInitial)
  /\ dyPc = "returned" => dyCursor = dyRangeEnd

\* an iteration moves the cursor on, to the end of its day at most; it adds
\* the time between the two cursors to the bucket of the day when the day is
\* of the month and has a bucket, and changes no bucket otherwise
IterationAdvances ==
  dySteps' # dySteps =>
    /\ dyCursor' > dyCursor
    /\ DayNumber(dyCursor' - 1) = DayNumber(dyCursor)
    /\ IF InTargetMonth(dyCursor) /\ DayIndexOf(dyCursor) < Len(dyDurations)
       THEN dyDurations' = [dyDurations EXCEPT ![DayIndexOf(dyCursor) + 1] = @ + (dyCursor' - dyCursor)]
       ELSE dyDurations' = dyDurations

\* C27: a call of addDurationByDay with rangeStart < rangeEnd returns; every
\* iteration moves the cursor forward, the cursor is at rangeEnd when the
\* loop is left, and there is one iteration at most for each calendar day of
\* the range; an iteration whose day is not of the target month, or has no
\* bucket in the array, changes no bucket, and the array keeps its length.
C27_DayLoopTerminates ==
  /\ []LoopWithinRange
  /\ [][IterationAdvances]_vars
  /\ <>(dyPc = "returned")

\* a call for a range from before the month to after it has returned: days
\* outside the month were passed over and the days of the month counted
C27_Witness ==
  /\ dyPc = "returned"
  /\ dyRangeStart < MonthStart(FileDate)
  /\ dyRangeEnd > MonthEnd(FileDate)
  /\ dySteps = DaysTouched
  /\ Len(dyInitial) = DaysInMonth(FileDate)
  /\ \A d \in 1..Len(dyDurations) : dyDurations[d] = dyInitial[d] + MinutesPerDay

====
